---------------------------- MODULE Spec2Model ----------------------------
(***************************************************************************)
(* A model of nfqueue-mnl.h: the queue handle (nfqueue_open/nfqueue_close), *)
(* the receive buffer (nfqueue_receive/nfqueue_next), the packet assembler *)
(* (nfqueue_parse) and the netlink transport they run on.                  *)
(***************************************************************************)
EXTENDS Integers, Sequences, FiniteSets, TLC

\* ------------------------------------------------------------------ bounds

\* datagrams the kernel sends in one behaviour
MaxArrivals == 2
\* sockets the process may create before socket() fails
MaxSockets == 2
\* payload blocks malloc can hand out before it returns NULL
MaxBlocks == 3
\* calls of mnl_socket_close on one socket that are followed
MaxReleases == 2

\* ------------------------------------------------------- program constants

IO_ERROR == -1
IO_NOTREADY == 0
IO_READY == 1

\* linux/netlink.h and libmnl, as used by nfqueue_next
NLMSG_MIN_TYPE == 16
NLM_F_DUMP_INTR == 16
MNL_ALIGNTO == 4
MNL_NLMSG_HDRLEN == 16
MNL_ATTR_HDRLEN == 4
NFGENMSG_LEN == 4

\* linux/netfilter/nfnetlink_queue.h attribute types
NFQA_PACKET_HDR == 1
NFQA_TIMESTAMP == 4
NFQA_PAYLOAD == 10
NFQA_CT == 11
NFQA_CT_INFO == 12
NFQA_MAX == 20
PACKET_HDR_LEN == 7
TIMESTAMP_LEN == 16
U32_LEN == 4

\* nlmsg_type of the messages the kernel sends
NLMSG_ERROR == 2
NFQNL_PACKET_TYPE == 768

NULL == 0

MNL_ALIGN(n) == ((n + MNL_ALIGNTO - 1) \div MNL_ALIGNTO) * MNL_ALIGNTO

\* ------------------------------------------------------------ byte orders

\* the four bytes of a 32-bit value in network byte order
htonl_bytes(v) ==
    << (v \div 16777216) % 256, (v \div 65536) % 256, (v \div 256) % 256, v % 256 >>

\* a 32-bit load from memory on the (little-endian) host
load_u32(b) == b[1] + 256 * b[2] + 65536 * b[3] + 16777216 * b[4]

\* ntohl on the host: swap the four bytes of the loaded value
ntohl(x) ==
    (x % 256) * 16777216 + ((x \div 256) % 256) * 65536
        + ((x \div 65536) % 256) * 256 + ((x \div 16777216) % 256)

\* a 16-bit load from memory on the host, and ntohs on the loaded value
load_u16(b) == b[1] + 256 * b[2]
ntohs(x) == (x % 256) * 256 + ((x \div 256) % 256)

NLA_TYPE_SPAN == 16384

RECURSIVE mnl_attr_walk(_)
\* the attributes of a byte span, as mnl_attr_ok and mnl_attr_next walk it: the
\* walk ends at the first attribute header that does not fit what is left
mnl_attr_walk(b) ==
    IF Len(b) < 4 THEN << >>
    ELSE LET nla_len == load_u16(SubSeq(b, 1, 2))
             step == ((nla_len + 3) \div 4) * 4
         IN IF nla_len < 4 \/ nla_len > Len(b) THEN << >>
            ELSE << [type |-> load_u16(SubSeq(b, 3, 4)) % NLA_TYPE_SPAN,
                     val  |-> SubSeq(b, 5, nla_len)] >>
                 \o (IF step >= Len(b) THEN << >> ELSE mnl_attr_walk(SubSeq(b, step + 1, Len(b))))

\* ------------------------------------------------------ outbound commands

\* libmnl and kernel headers, as used by the command builders
BUF_TOO_SHORT == -42
MNL_SOCKET_BUFFER_SIZE == 8192
NLM_F_REQUEST == 1
NLA_F_NESTED == 32768
NFNL_SUBSYS_QUEUE == 3
NFQNL_MSG_VERDICT == 1
NFQNL_MSG_CONFIG == 2
NFQA_VERDICT_HDR == 2
NFQA_CFG_CMD == 1
NFQA_CFG_PARAMS == 2
NFQA_CFG_QUEUE_MAXLEN == 3
NFQA_CFG_MASK == 4
NFQA_CFG_FLAGS == 5
NFQNL_CFG_CMD_BIND == 1
NFQNL_COPY_PACKET == 2
NFQA_CFG_F_CONNTRACK == 2
COPY_RANGE == 65535
CTA_MARK == 8
UINT16_SPAN == 65536

\* a 16-bit store on the (little-endian) host
store_u16(n) == << n % 256, (n \div 256) % 256 >>

\* the two bytes of a 16-bit value in network byte order
htons_bytes(v) == << (v \div 256) % 256, v % 256 >>

Zeros(n) == [k \in 1..n |-> 0]

\* no message: the NULL nfqueue_put_header returns
NoMsg == [nlmsg_len |-> 0, nlmsg_type |-> 0, nlmsg_flags |-> 0, body |-> << >>]

\* nfqueue_put_header with a scratch buffer of cap bytes.  body holds the bytes
\* after struct nlmsghdr; mallocs/frees count the scratch buffers it took and
\* gave back.
nfqueue_put_header(queue_num, msg_type, cap) ==
    IF MNL_ALIGN(MNL_NLMSG_HDRLEN) > cap
    THEN [ok |-> FALSE, nlh |-> NoMsg, mallocs |-> 0, frees |-> 0]
    ELSE IF MNL_ALIGN(MNL_NLMSG_HDRLEN) + MNL_ALIGN(NFGENMSG_LEN) > cap
    THEN [ok |-> FALSE, nlh |-> NoMsg, mallocs |-> 1, frees |-> 1]
    ELSE [ok |-> TRUE,
          nlh |-> [nlmsg_len   |-> MNL_ALIGN(MNL_NLMSG_HDRLEN) + MNL_ALIGN(NFGENMSG_LEN),
                   nlmsg_type  |-> NFNL_SUBSYS_QUEUE * 256 + msg_type,
                   nlmsg_flags |-> NLM_F_REQUEST,
                   body        |-> <<0, 0>> \o htons_bytes(queue_num)],
          mallocs |-> 1, frees |-> 0]

\* mnl_attr_put: the attribute header, the payload and the padding
mnl_attr_put(nlh, type, val) ==
    LET payload_len == MNL_ALIGN(MNL_ATTR_HDRLEN) + Len(val)
        pad == MNL_ALIGN(payload_len) - payload_len
    IN [nlh EXCEPT !.body = @ \o store_u16(payload_len) \o store_u16(type) \o val \o Zeros(pad),
                   !.nlmsg_len = @ + MNL_ALIGN(payload_len)]

\* mnl_attr_put_check (and mnl_attr_put_u32_check)
mnl_attr_put_check(nlh, cap, type, val) ==
    IF nlh.nlmsg_len + MNL_ATTR_HDRLEN + MNL_ALIGN(Len(val)) > cap
    THEN [ok |-> FALSE, nlh |-> nlh]
    ELSE [ok |-> TRUE, nlh |-> mnl_attr_put(nlh, type, val)]

\* mnl_attr_nest_start_check: start is the offset of the nest in body (0: NULL);
\* the length field of the nest is written by mnl_attr_nest_end
mnl_attr_nest_start_check(nlh, cap, type) ==
    IF nlh.nlmsg_len + MNL_ATTR_HDRLEN > cap
    THEN [ok |-> FALSE, nlh |-> nlh, start |-> 0]
    ELSE [ok |-> TRUE,
          nlh |-> [nlh EXCEPT !.body = @ \o <<0, 0>> \o store_u16(NLA_F_NESTED + type),
                              !.nlmsg_len = @ + MNL_ALIGN(MNL_ATTR_HDRLEN)],
          start |-> Len(nlh.body) + 1]

\* mnl_attr_nest_end: start->nla_len = tail - start
mnl_attr_nest_end(nlh, start) ==
    LET n == store_u16(Len(nlh.body) - start + 1) IN
    [nlh EXCEPT !.body = [@ EXCEPT ![start] = n[1], ![start + 1] = n[2]]]

\* a command as built in the scratch buffer.  stage "nohdr": nfqueue_put_header
\* returned NULL; "short": an append did not fit; "built": ready to send
Built(stage, h, nlh) == [stage |-> stage, nlh |-> nlh, mallocs |-> h.mallocs, frees |-> h.frees]

\* nfqueue_send_command up to the send call, for the BIND command of nfqueue_bind
bind_command(queue_num, cap) ==
    LET h == nfqueue_put_header(queue_num, NFQNL_MSG_CONFIG, cap)
        cmd == <<NFQNL_CFG_CMD_BIND, 0, 0, 0>>
        a == mnl_attr_put_check(h.nlh, cap, NFQA_CFG_CMD, cmd)
    IN IF ~h.ok THEN Built("nohdr", h, NoMsg)
       ELSE IF ~a.ok THEN Built("short", h, a.nlh)
       ELSE Built("built", h, a.nlh)

\* nfqueue_set_params up to the send call
set_params_command(queue_num, mode, range, maxlen, flags, cap) ==
    LET h == nfqueue_put_header(queue_num, NFQNL_MSG_CONFIG, cap)
        params == htonl_bytes(range) \o <<mode>>
        a == mnl_attr_put_check(h.nlh, cap, NFQA_CFG_PARAMS, params)
        b == IF maxlen > 0
             THEN mnl_attr_put_check(a.nlh, cap, NFQA_CFG_QUEUE_MAXLEN, htonl_bytes(maxlen))
             ELSE [ok |-> TRUE, nlh |-> a.nlh]
        c == IF flags # 0
             THEN mnl_attr_put_check(b.nlh, cap, NFQA_CFG_FLAGS, htonl_bytes(flags))
             ELSE [ok |-> TRUE, nlh |-> b.nlh]
        d == IF flags # 0
             THEN mnl_attr_put_check(c.nlh, cap, NFQA_CFG_MASK, htonl_bytes(flags))
             ELSE [ok |-> TRUE, nlh |-> c.nlh]
    IN IF ~h.ok THEN Built("nohdr", h, NoMsg)
       ELSE IF ~a.ok THEN Built("short", h, a.nlh)
       ELSE IF ~b.ok THEN Built("short", h, b.nlh)
       ELSE IF ~c.ok THEN Built("short", h, c.nlh)
       ELSE IF ~d.ok THEN Built("short", h, d.nlh)
       ELSE Built("built", h, d.nlh)

\* An int64_t is held as <<hi, lo>>, its value being hi * 65536 + lo with lo in
\* 0..65535: -1 is <<-1, 65535>> and 4294967295 is <<65535, 65535>>.
Wide(hi, lo) == <<hi, lo>>

\* htonl((uint32_t)connmark): the low 32 bits, in network byte order
htonl_u32_bytes(w) == htons_bytes(w[1] % UINT16_SPAN) \o htons_bytes(w[2])

\* a variant of connmark_set that takes zero for "no mark"
connmark_set_positive(connmark) == connmark[1] > 0 \/ (connmark[1] = 0 /\ connmark[2] > 0)

\* if (connmark >= 0)
connmark_set(connmark) == connmark[1] >= 0

\* nfqueue_send_verdict_connmark up to the send call
verdict_command(queue_num, packet_id, verdict, connmark, cap) ==
    LET h == nfqueue_put_header(queue_num, NFQNL_MSG_VERDICT, cap)
        vh == htonl_bytes(verdict) \o htonl_bytes(packet_id)
        a == mnl_attr_put_check(h.nlh, cap, NFQA_VERDICT_HDR, vh)
        nest == mnl_attr_nest_start_check(a.nlh, cap, NFQA_CT)
        m == mnl_attr_put_check(nest.nlh, cap, CTA_MARK, htonl_u32_bytes(connmark))
    IN IF ~h.ok THEN Built("nohdr", h, NoMsg)
       ELSE IF ~a.ok THEN Built("short", h, a.nlh)
       ELSE IF ~connmark_set(connmark) THEN Built("built", h, a.nlh)
       ELSE IF ~nest.ok THEN Built("short", h, nest.nlh)
       ELSE IF ~m.ok THEN Built("short", h, m.nlh)
       ELSE Built("built", h, mnl_attr_nest_end(m.nlh, nest.start))

\* the rest of a command function: the send call (it succeeds or fails as the
\* transport decides), free(nlh) and the mapping of BUF_TOO_SHORT to ENOBUFS.
\* errno0 is errno before the call.
send_built(b, sendOk, errno0) ==
    CASE b.stage = "nohdr" ->
            [ret |-> BUF_TOO_SHORT, errno |-> errno0, sends |-> << >>,
             mallocs |-> b.mallocs, frees |-> b.frees]
      [] b.stage = "short" ->
            [ret |-> BUF_TOO_SHORT, errno |-> "ENOBUFS", sends |-> << >>,
             mallocs |-> b.mallocs, frees |-> b.frees + 1]
      [] OTHER ->
            [ret |-> IF sendOk THEN b.nlh.nlmsg_len ELSE -1,
             errno |-> IF sendOk THEN errno0 ELSE "ECONNREFUSED",
             sends |-> << b.nlh >>,
             mallocs |-> b.mallocs, frees |-> b.frees + 1]

\* ------------------------------------------------------- inbound messages

\* linux/netfilter/nfnetlink_conntrack.h attribute types
CTA_TUPLE_ORIG == 1
CTA_TUPLE_REPLY == 2
CTA_STATUS == 3
CTA_TIMEOUT == 7
CTA_COUNTERS_ORIG == 9
CTA_COUNTERS_REPLY == 10
CTA_ID == 12
CTA_SECMARK == 17
CTA_MAX == 26
CTA_TUPLE_IP == 1
CTA_TUPLE_PROTO == 2
CTA_TUPLE_MAX == 3
CTA_IP_V4_SRC == 1
CTA_IP_V4_DST == 2
CTA_IP_V6_SRC == 3
CTA_IP_V6_DST == 4
CTA_IP_MAX == 4
CTA_PROTO_NUM == 1
CTA_PROTO_SRC_PORT == 2
CTA_PROTO_DST_PORT == 3
CTA_PROTO_ICMP_ID == 4
CTA_PROTO_ICMP_TYPE == 5
CTA_PROTO_ICMP_CODE == 6
CTA_PROTO_MAX == 9
U8_LEN == 1
U16_LEN == 2
IN6_ADDR_LEN == 16
IPV4 == 4
IPV6 == 6

\* A datagram is [tmpl, serial]: the kinds of its messages, and the number of
\* the datagram in the kernel's sending order.  Its messages are built from
\* that by Msg, so that every message has its own packet id and payload.
Kinds == {"evt", "evtU", "ctl", "intr", "nohdr", "badhdr", "nopl", "zeropl", "trunc"}

\* event messages with a timestamp or with connection tracking data
FieldKinds == {"evtTs", "evtTs0", "evtTsUsec", "evtCt", "evtCtNoMark", "evtCtEmpty", "evtInfo"}

\* event messages without the packet metaheader, without a payload or with an
\* empty payload, next to other attributes
LackingKinds == {"nohdr", "nopl", "zeropl", "nohdrCt", "nohdrBadTs", "noplTs", "noplUnknown",
                 "zeroplInfo", "zeroplBadInfo"}

\* event messages with one attribute of a known type and a wrong length
BadLengthKinds == {"badhdr", "badTs", "badInfo", "badCtId", "badCtTuple", "badTupleIp",
                   "badTupleProto", "badV4", "badV6", "badPort", "badProtoNum"}

\* event messages whose original or reply tuple mixes address families
MixedKinds == {"mixV4SrcV6Dst", "mixV6SrcV4Dst", "mixBothSrc", "mixReply"}

\* the batches the kernel sends
Batches ==
    { <<"evt">>, <<"evtU">>, <<"evt", "evtU">>, <<"evtU", "evt">>, <<"ctl", "evt">>,
      <<"evt", "ctl">>,
      <<"intr", "evt">>, <<"nohdr", "evt">>, <<"badhdr", "evt">>, <<"nopl">>,
      <<"zeropl", "evt">>, <<"evt", "trunc">> }

\* batches of complete, well-formed event messages only
WellFormedBatches == { <<"evt">>, <<"evtU">>, <<"evt", "evtU">>, <<"evtU", "evt">> }

PidOf(serial, idx) == 256 * serial + idx

HdrAttr(serial, idx) ==
    [type |-> NFQA_PACKET_HDR, val |-> htonl_bytes(PidOf(serial, idx)) \o <<8, 0, 1>>]

PayloadAttr(bytes) == [type |-> NFQA_PAYLOAD, val |-> bytes]

\* an attribute as the kernel writes it into a nested payload
nla(type, val) ==
    store_u16(MNL_ATTR_HDRLEN + Len(val)) \o store_u16(type) \o val
        \o Zeros(MNL_ALIGN(Len(val)) - Len(val))

nest(type, val) == nla(NLA_F_NESTED + type, val)

V4A == <<10, 0, 0, 1>>
V4B == <<10, 0, 0, 2>>
V6A == <<32, 1, 13, 184, 0, 0, 0, 0, 0, 0, 0, 0, 0, 0, 0, 1>>
V6B == <<32, 1, 13, 184, 0, 0, 0, 0, 0, 0, 0, 0, 0, 0, 0, 2>>

\* the protocol sub-block of a tuple: TCP, ports 1025 and 80
ProtoBlock == nest(CTA_TUPLE_PROTO, nla(CTA_PROTO_NUM, <<6>>) \o nla(CTA_PROTO_SRC_PORT, <<4, 1>>)
                                        \o nla(CTA_PROTO_DST_PORT, <<0, 80>>))

\* a tuple whose IP sub-block holds the attributes ip
TupleOf(ip) == nest(CTA_TUPLE_IP, ip) \o ProtoBlock

TupleV4 == TupleOf(nla(CTA_IP_V4_SRC, V4A) \o nla(CTA_IP_V4_DST, V4B))
TupleV6 == TupleOf(nla(CTA_IP_V6_SRC, V6B) \o nla(CTA_IP_V6_DST, V6A))

CtScalars == nla(CTA_STATUS, <<0, 0, 0, 14>>) \o nla(CTA_ID, <<0, 0, 1, 9>>)
CtMark == nla(CTA_MARK, <<0, 0, 1, 2>>)

CtAttr(val) == [type |-> NFQA_CT, val |-> val]
CtInfoAttr == [type |-> NFQA_CT_INFO, val |-> <<0, 0, 0, 2>>]
TsAttr(sec, usec) == [type |-> NFQA_TIMESTAMP, val |-> Zeros(7) \o <<sec>> \o Zeros(6) \o usec]

\* a tracking context with the original tuple orig
CtWith(orig) == CtAttr(nest(CTA_TUPLE_ORIG, orig) \o CtScalars)

AttrsOf(kind, serial, idx) ==
    LET hdr == HdrAttr(serial, idx)
        pl == PayloadAttr(<<serial, idx, 0, 0>>)
    IN
    CASE kind \in {"evt", "intr", "trunc"} ->
            << HdrAttr(serial, idx), PayloadAttr(<<serial, idx, 0, 0>>) >>
      [] kind = "evtTs"       -> << hdr, pl, TsAttr(7, <<1, 2>>) >>
      [] kind = "evtTs0"      -> << hdr, pl, TsAttr(0, <<0, 0>>) >>
      [] kind = "evtTsUsec"   -> << hdr, pl, TsAttr(0, <<0, 5>>) >>
      [] kind = "evtCt"       ->
            << hdr, TsAttr(7, <<1, 2>>),
               CtAttr(nest(CTA_TUPLE_ORIG, TupleV4) \o nest(CTA_TUPLE_REPLY, TupleV6)
                          \o CtScalars \o CtMark),
               CtInfoAttr, pl >>
      [] kind = "evtCtNoMark" -> << hdr, pl, CtWith(TupleV6), CtInfoAttr >>
      [] kind = "evtCtEmpty"  -> << hdr, pl, CtAttr(<< >>) >>
      [] kind = "evtInfo"     -> << hdr, pl, CtInfoAttr >>
      [] kind = "nohdrCt"     -> << pl, TsAttr(7, <<1, 2>>), CtWith(TupleV4), CtInfoAttr >>
      [] kind = "nohdrBadTs"  -> << pl, [type |-> NFQA_TIMESTAMP, val |-> Zeros(8)] >>
      [] kind = "noplTs"      -> << hdr, TsAttr(7, <<1, 2>>), CtWith(TupleV4) >>
      [] kind = "noplUnknown" -> << [type |-> NFQA_MAX + 5, val |-> <<1, 2, 3>>], hdr >>
      [] kind = "zeroplInfo"  -> << hdr, PayloadAttr(<< >>), CtWith(TupleV4), CtInfoAttr >>
      [] kind = "zeroplBadInfo" ->
            << hdr, PayloadAttr(<< >>), [type |-> NFQA_CT_INFO, val |-> <<0, 2>>] >>
      [] kind = "badTs"       -> << hdr, pl, [type |-> NFQA_TIMESTAMP, val |-> Zeros(8)] >>
      [] kind = "badInfo"     -> << hdr, pl, [type |-> NFQA_CT_INFO, val |-> <<0, 2>>] >>
      [] kind = "badCtId"     -> << hdr, pl, CtAttr(nla(CTA_ID, <<1, 9>>)) >>
      [] kind = "badCtTuple"  -> << hdr, pl, CtAttr(nla(CTA_TUPLE_ORIG, <<1, 9>>) \o CtScalars) >>
      [] kind = "badTupleIp"  -> << hdr, pl, CtWith(nla(CTA_TUPLE_IP, <<1>>) \o ProtoBlock) >>
      [] kind = "badTupleProto" ->
            << hdr, pl, CtWith(nest(CTA_TUPLE_IP, nla(CTA_IP_V4_SRC, V4A))
                               \o nla(CTA_TUPLE_PROTO, <<1, 2, 3>>)) >>
      [] kind = "badV4"       ->
            << hdr, pl, CtWith(TupleOf(nla(CTA_IP_V4_SRC, <<10, 0>>) \o nla(CTA_IP_V4_DST, V4B))) >>
      [] kind = "badV6"       ->
            << hdr, pl, CtWith(TupleOf(nla(CTA_IP_V6_SRC, V6A) \o nla(CTA_IP_V6_DST, V4B))) >>
      [] kind = "badPort"     ->
            << hdr, pl, CtWith(nest(CTA_TUPLE_IP, nla(CTA_IP_V4_SRC, V4A))
                               \o nest(CTA_TUPLE_PROTO, nla(CTA_PROTO_SRC_PORT, <<0, 0, 4, 1>>))) >>
      [] kind = "badProtoNum" ->
            << hdr, pl, CtWith(nest(CTA_TUPLE_IP, nla(CTA_IP_V4_SRC, V4A))
                               \o nest(CTA_TUPLE_PROTO, nla(CTA_PROTO_NUM, <<0, 6>>))) >>
      [] kind = "mixV4SrcV6Dst" ->
            << hdr, pl, CtWith(TupleOf(nla(CTA_IP_V4_SRC, V4A) \o nla(CTA_IP_V6_DST, V6B))) >>
      [] kind = "mixV6SrcV4Dst" ->
            << hdr, pl, CtWith(TupleOf(nla(CTA_IP_V6_SRC, V6A) \o nla(CTA_IP_V4_DST, V4B))) >>
      [] kind = "mixBothSrc"  ->
            << hdr, pl, CtWith(TupleOf(nla(CTA_IP_V4_SRC, V4A) \o nla(CTA_IP_V6_SRC, V6A))) >>
      [] kind = "mixReply"    ->
            << hdr, pl,
               CtAttr(nest(CTA_TUPLE_ORIG, TupleV4)
                      \o nest(CTA_TUPLE_REPLY,
                              TupleOf(nla(CTA_IP_V6_DST, V6B) \o nla(CTA_IP_V4_DST, V4B)))) >>
      [] kind = "evtU"   -> << HdrAttr(serial, idx), PayloadAttr(<<serial, idx, 9>>) >>
      [] kind = "nohdr"  -> << PayloadAttr(<<serial, idx, 0, 0>>) >>
      [] kind = "badhdr" -> << [type |-> NFQA_PACKET_HDR, val |-> <<0, 0, 1, 1>>],
                               PayloadAttr(<<serial, idx, 0, 0>>) >>
      [] kind = "nopl"   -> << HdrAttr(serial, idx) >>
      [] kind = "zeropl" -> << HdrAttr(serial, idx), PayloadAttr(<< >>) >>
      [] OTHER           -> << >>

RECURSIVE AttrsLen(_)
\* bytes of an attribute sequence: each attribute padded but the last
AttrsLen(attrs) ==
    IF attrs = << >> THEN 0
    ELSE IF Len(attrs) = 1 THEN MNL_ATTR_HDRLEN + Len(attrs[1].val)
    ELSE MNL_ALIGN(MNL_ATTR_HDRLEN + Len(attrs[1].val)) + AttrsLen(Tail(attrs))

\* struct nlmsghdr, the nfgenmsg queue number and the attributes of one message
Msg(kind, serial, idx) ==
    LET attrs == AttrsOf(kind, serial, idx) IN
    [ nlmsg_len   |-> IF kind = "ctl" THEN MNL_NLMSG_HDRLEN + 20
                      ELSE MNL_NLMSG_HDRLEN + NFGENMSG_LEN + AttrsLen(attrs),
      nlmsg_type  |-> IF kind = "ctl" THEN NLMSG_ERROR ELSE NFQNL_PACKET_TYPE,
      nlmsg_flags |-> IF kind = "intr" THEN NLM_F_DUMP_INTR ELSE 0,
      res_id      |-> <<0, 5>>,
      attrs       |-> attrs ]

MsgOf(d, i) == Msg(d.tmpl[i], d.serial, i)

\* bytes message i takes in the datagram: a truncated one is cut after its headers
Occupied(d, i) ==
    IF d.tmpl[i] = "trunc" THEN MNL_NLMSG_HDRLEN + NFGENMSG_LEN + 4
    ELSE MsgOf(d, i).nlmsg_len

RECURSIVE StartOf(_, _)
\* offset of message i: the messages before it are padded to the alignment
StartOf(d, i) ==
    IF i <= 1 THEN 0 ELSE StartOf(d, i - 1) + MNL_ALIGN(MsgOf(d, i - 1).nlmsg_len)

\* bytes of the datagram: the last message is not padded
DatagramLen(d) == StartOf(d, Len(d.tmpl)) + Occupied(d, Len(d.tmpl))

NoDatagram == [tmpl |-> << >>, serial |-> 0]


\* ------------------------------------------------------- attribute parser

NFQA_U32_TYPES == {3, 5, 6, 7, 8, 12, 13, 14, 16, 17, 18}
NFQA_HWADDR == 9
HWADDR_LEN == 12

\* "err": MNL_CB_ERROR; "skip": MNL_CB_OK without an index entry; "set": indexed
parse_nfqa_attr_cb(attr) ==
    IF attr.type > NFQA_MAX THEN "skip"
    ELSE IF attr.type \in NFQA_U32_TYPES /\ Len(attr.val) # U32_LEN THEN "err"
    ELSE IF attr.type = NFQA_TIMESTAMP /\ Len(attr.val) # TIMESTAMP_LEN THEN "err"
    ELSE IF attr.type = NFQA_HWADDR /\ Len(attr.val) # HWADDR_LEN THEN "err"
    ELSE IF attr.type = NFQA_PACKET_HDR /\ Len(attr.val) # PACKET_HDR_LEN THEN "err"
    ELSE "set"

RECURSIVE mnl_attr_parse(_, _, _)
\* walks attrs from index i; tb maps a type to the index of its attribute (0: NULL)
mnl_attr_parse(attrs, i, tb) ==
    IF i > Len(attrs) THEN [ok |-> TRUE, tb |-> tb]
    ELSE LET r == parse_nfqa_attr_cb(attrs[i]) IN
         IF r = "err" THEN [ok |-> FALSE, tb |-> tb]
         ELSE mnl_attr_parse(attrs, i + 1,
                             IF r = "set" THEN [tb EXCEPT ![attrs[i].type] = i] ELSE tb)

EmptyTb == [ty \in 0..NFQA_MAX |-> 0]

\* mnl_attr_validate(attr, MNL_TYPE_NESTED): empty, or room for one attribute header
nested_valid(val) == Len(val) = 0 \/ Len(val) >= MNL_ATTR_HDRLEN

parse_cta_attr_cb(attr) ==
    IF attr.type > CTA_MAX THEN "skip"
    ELSE IF attr.type \in {CTA_TUPLE_ORIG, CTA_TUPLE_REPLY, CTA_COUNTERS_ORIG, CTA_COUNTERS_REPLY}
            /\ ~nested_valid(attr.val) THEN "err"
    ELSE IF attr.type \in {CTA_STATUS, CTA_TIMEOUT, CTA_MARK, CTA_SECMARK, CTA_ID}
            /\ Len(attr.val) # U32_LEN THEN "err"
    ELSE "set"

parse_tuple_cb(attr) ==
    IF attr.type > CTA_TUPLE_MAX THEN "skip"
    ELSE IF attr.type \in {CTA_TUPLE_IP, CTA_TUPLE_PROTO} /\ ~nested_valid(attr.val) THEN "err"
    ELSE "set"

\* a variant of parse_ip_cb that indexes the addresses without validating them
parse_ip_cb_lenient(attr) ==
    IF attr.type > CTA_IP_MAX THEN "skip" ELSE "set"

parse_ip_cb(attr) ==
    IF attr.type > CTA_IP_MAX THEN "skip"
    ELSE IF attr.type \in {CTA_IP_V4_SRC, CTA_IP_V4_DST} /\ Len(attr.val) # U32_LEN THEN "err"
    ELSE IF attr.type \in {CTA_IP_V6_SRC, CTA_IP_V6_DST} /\ Len(attr.val) # IN6_ADDR_LEN THEN "err"
    ELSE "set"

parse_proto_cb(attr) ==
    IF attr.type > CTA_PROTO_MAX THEN "skip"
    ELSE IF attr.type \in {CTA_PROTO_NUM, CTA_PROTO_ICMP_TYPE, CTA_PROTO_ICMP_CODE}
            /\ Len(attr.val) # U8_LEN THEN "err"
    ELSE IF attr.type \in {CTA_PROTO_SRC_PORT, CTA_PROTO_DST_PORT, CTA_PROTO_ICMP_ID}
            /\ Len(attr.val) # U16_LEN THEN "err"
    ELSE "set"

\* the callback mnl_attr_parse_nested is given at each nesting level
nested_cb(level, attr) ==
    CASE level = "cta"   -> parse_cta_attr_cb(attr)
      [] level = "tuple" -> parse_tuple_cb(attr)
      [] level = "ip"    -> parse_ip_cb(attr)
      [] OTHER           -> parse_proto_cb(attr)

nested_max(level) ==
    CASE level = "cta"   -> CTA_MAX
      [] level = "tuple" -> CTA_TUPLE_MAX
      [] level = "ip"    -> CTA_IP_MAX
      [] OTHER           -> CTA_PROTO_MAX

RECURSIVE nested_index(_, _, _, _)
\* the callbacks of one level over the walked attributes at, from index i
nested_index(level, at, i, tb) ==
    IF i > Len(at) THEN [ok |-> TRUE, tb |-> tb]
    ELSE LET r == nested_cb(level, at[i]) IN
         IF r = "err" THEN [ok |-> FALSE, tb |-> tb]
         ELSE nested_index(level, at, i + 1,
                           IF r = "set" THEN [tb EXCEPT ![at[i].type] = i] ELSE tb)

\* mnl_attr_parse_nested on the payload val of a nested attribute: at are the
\* attributes walked and tb maps a type to the index of its attribute (0: NULL)
mnl_attr_parse_nested(level, val) ==
    LET at == mnl_attr_walk(val)
        r == nested_index(level, at, 1, [ty \in 0..nested_max(level) |-> 0])
    IN [ok |-> r.ok, at |-> at, tb |-> r.tb]

\* n bytes read at the payload of an attribute
read_bytes(val, n) == [k \in 1..n |-> IF k <= Len(val) THEN val[k] ELSE 0]

\* struct ip_tuple; an ip_address_t is its 16 bytes
ZeroAddr == Zeros(16)
ZeroTuple == [ip_version |-> 0, src |-> ZeroAddr, dst |-> ZeroAddr, src_port |-> 0, dst_port |-> 0]

\* a variant of ip_version_clash that accepts any mix of families
ip_version_clash_never(cur, ip_ver) == FALSE

\* else if (*ip_version != ip_ver)
ip_version_clash(cur, ip_ver) == cur # 0 /\ cur # ip_ver

\* read_ip_addr for attribute index i of at (0: the attribute is absent), into
\* the source (side "src") or destination address of the tuple; st carries the
\* tuple and the success flag of read_addr_tuple
read_ip_addr(at, i, af, side, st) ==
    IF i = 0 THEN st
    ELSE LET addr == IF af = IPV4 THEN read_bytes(at[i].val, U32_LEN) \o Zeros(12)
                     ELSE read_bytes(at[i].val, IN6_ADDR_LEN)
             t1 == IF side = "src" THEN [st.tuple EXCEPT !.src = addr]
                   ELSE [st.tuple EXCEPT !.dst = addr]
         IN IF t1.ip_version = 0
            THEN [tuple |-> [t1 EXCEPT !.ip_version = af], ok |-> st.ok]
            ELSE IF ip_version_clash(t1.ip_version, af)
            THEN [tuple |-> t1, ok |-> FALSE]
            ELSE [tuple |-> t1, ok |-> st.ok]

\* the four read_ip_addr calls of read_addr_tuple, on the parsed IP sub-block a3:
\* success &= ... evaluates all four
read_ip_addrs(a3, tuple) ==
    IF ~a3.ok THEN [tuple |-> tuple, ok |-> FALSE]
    ELSE read_ip_addr(a3.at, a3.tb[CTA_IP_V6_DST], IPV6, "dst",
         read_ip_addr(a3.at, a3.tb[CTA_IP_V6_SRC], IPV6, "src",
         read_ip_addr(a3.at, a3.tb[CTA_IP_V4_DST], IPV4, "dst",
         read_ip_addr(a3.at, a3.tb[CTA_IP_V4_SRC], IPV4, "src", [tuple |-> tuple, ok |-> TRUE]))))

\* if (attr2[CTA_TUPLE_IP]) { ... }
read_ip_block(a2, tuple) ==
    IF a2.tb[CTA_TUPLE_IP] = 0 THEN [tuple |-> tuple, ok |-> TRUE]
    ELSE read_ip_addrs(mnl_attr_parse_nested("ip", a2.at[a2.tb[CTA_TUPLE_IP]].val), tuple)

\* the ports of the parsed protocol sub-block p3
read_ports(p3, tuple) ==
    IF ~p3.ok THEN [ok |-> FALSE, tuple |-> tuple]
    ELSE [ok |-> TRUE,
          tuple |-> [tuple EXCEPT
              !.src_port = IF p3.tb[CTA_PROTO_SRC_PORT] = 0 THEN @
                           ELSE ntohs(load_u16(read_bytes(p3.at[p3.tb[CTA_PROTO_SRC_PORT]].val, U16_LEN))),
              !.dst_port = IF p3.tb[CTA_PROTO_DST_PORT] = 0 THEN @
                           ELSE ntohs(load_u16(read_bytes(p3.at[p3.tb[CTA_PROTO_DST_PORT]].val, U16_LEN)))]]

\* if (attr2[CTA_TUPLE_PROTO]) { ... } after the IP sub-block left st
read_proto_block(a2, st) ==
    IF ~st.ok THEN [ok |-> FALSE, tuple |-> st.tuple]
    ELSE IF a2.tb[CTA_TUPLE_PROTO] = 0 THEN [ok |-> TRUE, tuple |-> st.tuple]
    ELSE read_ports(mnl_attr_parse_nested("proto", a2.at[a2.tb[CTA_TUPLE_PROTO]].val), st.tuple)

\* read_addr_tuple once the tuple attribute is parsed into a2
read_tuple_blocks(a2, tuple) ==
    IF ~a2.ok THEN [ok |-> FALSE, tuple |-> tuple]
    ELSE read_proto_block(a2, read_ip_block(a2, tuple))

\* read_addr_tuple on the payload val of a tuple attribute
read_addr_tuple(val, tuple) == read_tuple_blocks(mnl_attr_parse_nested("tuple", val), tuple)

\* ------------------------------------------------------- packet assembler

NullPtr == [kind |-> "null", ref |-> <<0, 0>>]
HeapPtr(a) == [kind |-> "heap", ref |-> <<a, 0>>]
\* the payload of message i in the receive buffer of thread t
BufPtr(t, i) == [kind |-> "buf", ref |-> <<t, i>>]

\* memset(packet, 0, sizeof(*packet))
ZeroPacket ==
    [ queue_num |-> 0, packet_id |-> 0, hw_protocol |-> 0, payload_len |-> 0,
      payload |-> NullPtr, has_timestamp |-> FALSE, timestamp |-> <<0, 0>>,
      wall_time |-> 0, mono_time |-> 0, has_conntrack |-> FALSE,
      has_connmark |-> FALSE, conn_id |-> 0, conn_mark |-> 0, conn_state |-> 0,
      conn_status |-> 0, orig |-> ZeroTuple, reply |-> ZeroTuple ]

RECURSIVE be_value(_)
\* __be64_to_cpu of a big-endian byte string
be_value(b) == IF b = << >> THEN 0 ELSE 256 * be_value(SubSeq(b, 1, Len(b) - 1)) + b[Len(b)]

\* a mutant of payload_copy: the record keeps the pointer into the receive buffer
payload_alias(src, a) == src

\* packet->payload = malloc(payload_len); memmove(packet->payload, payload, payload_len)
payload_copy(src, a) == HeapPtr(a)

\* a variant of payload_empty that lets an empty payload through
payload_empty_never(len) == FALSE

\* if (packet->payload_len == 0)
payload_empty(len) == len = 0

\* a variant of timestamp_set that takes any timestamp the kernel passes
timestamp_set_always(ts) == TRUE

\* if (ts->sec != 0 || ts->usec != 0)
timestamp_set(ts) == \E k \in 1..Len(ts) : ts[k] # 0

\* the timestamp block of nfqueue_parse on the record p
read_timestamp(m, attr, p) ==
    IF attr[NFQA_TIMESTAMP] = NULL THEN p
    ELSE LET ts == m.attrs[attr[NFQA_TIMESTAMP]].val IN
         IF timestamp_set(ts)
         THEN [p EXCEPT !.has_timestamp = TRUE,
                        !.timestamp = <<be_value(SubSeq(ts, 1, 8)), be_value(SubSeq(ts, 9, 16))>>]
         ELSE p

\* ntohl(mnl_attr_get_u32(attr1[ty])) on the parsed tracking context c
cta_u32(c, ty) == ntohl(load_u32(c.at[c.tb[ty]].val))

\* conn_id, conn_status and the mark of the tracking context
read_cta_fields(c, p) ==
    [p EXCEPT !.conn_id = IF c.tb[CTA_ID] # NULL THEN cta_u32(c, CTA_ID) ELSE @,
              !.conn_status = IF c.tb[CTA_STATUS] # NULL THEN cta_u32(c, CTA_STATUS) ELSE @,
              !.has_connmark = IF c.tb[CTA_MARK] # NULL THEN TRUE ELSE @,
              !.conn_mark = IF c.tb[CTA_MARK] # NULL THEN cta_u32(c, CTA_MARK) ELSE @]

\* if (attr1[ty]) read_addr_tuple(attr1[ty], tuple)
read_tuple_if(c, ty, tuple) ==
    IF c.tb[ty] # NULL THEN read_addr_tuple(c.at[c.tb[ty]].val, tuple)
    ELSE [ok |-> TRUE, tuple |-> tuple]

\* the reply tuple, read into the record p: r is what read_addr_tuple left
read_reply(p, r) == [ok |-> r.ok, packet |-> [p EXCEPT !.reply = r.tuple]]

\* the original tuple, o being what read_addr_tuple left, then the reply tuple
read_tuples(c, p, o) ==
    IF ~o.ok THEN [ok |-> FALSE, packet |-> [p EXCEPT !.orig = o.tuple]]
    ELSE read_reply([p EXCEPT !.orig = o.tuple], read_tuple_if(c, CTA_TUPLE_REPLY, p.reply))

\* the body of if (attr[NFQA_CT]) once the tracking context is parsed into c
read_conntrack(c, p) ==
    IF ~c.ok THEN [ok |-> FALSE, packet |-> p]
    ELSE read_tuples(c, read_cta_fields(c, p), read_tuple_if(c, CTA_TUPLE_ORIG, p.orig))

\* if (attr[NFQA_CT_INFO]) packet->conn_state = ...
read_ct_info(m, attr, p) ==
    IF attr[NFQA_CT_INFO] # NULL
    THEN [p EXCEPT !.conn_state = ntohl(load_u32(m.attrs[attr[NFQA_CT_INFO]].val))]
    ELSE p

\* a return of nfqueue_parse once the payload block is allocated; c is what the
\* tracking block left
ParseResult(m, payload, attr, c, warn) ==
    [res |-> IF c.ok THEN "ok" ELSE "fail",
     packet |-> IF c.ok THEN read_ct_info(m, attr, c.packet) ELSE c.packet,
     alloc |-> TRUE, bytes |-> payload, warn |-> warn]

\* LOG_ONCE(LOG_WARNING, "Kernel does not support packet timestamps")
timestamp_warning(p) == IF p.has_timestamp THEN {} ELSE {"timestamps"}

\* nfqueue_parse after the timestamp block, which left the record p: the
\* tracking context and the tracking state.  warn: the LOG_ONCE statements
\* reached
parse_optional(m, payload, p, attr) ==
    IF attr[NFQA_CT] = NULL
    THEN ParseResult(m, payload, attr, [ok |-> TRUE, packet |-> [p EXCEPT !.has_conntrack = FALSE]],
                     timestamp_warning(p) \cup {"conntrack"})
    ELSE ParseResult(m, payload, attr,
                     read_conntrack(mnl_attr_parse_nested("cta", m.attrs[attr[NFQA_CT]].val),
                                    [p EXCEPT !.has_conntrack = TRUE]),
                     timestamp_warning(p))

\* a return of nfqueue_parse before the payload block is allocated
ParseEnd(res, p) == [res |-> res, packet |-> p, alloc |-> FALSE, bytes |-> << >>, warn |-> {}]

\* a variant of packet_clear that leaves the caller's record as it was
packet_keep(packet) == packet

\* memset(packet, 0, sizeof(*packet)) on the record the caller passes
packet_clear(packet) == ZeroPacket

\* nfqueue_parse on message m into the caller's record packet; the payload
\* attribute sits at src in the receive buffer, a is the block malloc returns
\* (NULL when there is none left) and now the clock.  res: "ok" (true), "fail"
\* (false), "die" (ASSERT failed); alloc: whether the payload block was
\* allocated, bytes: what was copied to it.
nfqueue_parse(m, packet, src, a, now) ==
    LET p0 == [packet_clear(packet) EXCEPT !.mono_time = now, !.wall_time = now]
        pr == mnl_attr_parse(m.attrs, 1, EmptyTb)
        attr == pr.tb
    IN
    IF ~pr.ok THEN ParseEnd("fail", p0)
    ELSE IF attr[NFQA_PACKET_HDR] = NULL THEN ParseEnd("fail", p0)
    ELSE IF attr[NFQA_PAYLOAD] = NULL THEN ParseEnd("fail", p0)
    ELSE
    LET ph == m.attrs[attr[NFQA_PACKET_HDR]].val
        payload == m.attrs[attr[NFQA_PAYLOAD]].val
        p1 == [p0 EXCEPT !.queue_num = ntohs(load_u16(m.res_id)),
                         !.packet_id = ntohl(load_u32(SubSeq(ph, 1, 4))),
                         !.hw_protocol = ntohs(load_u16(SubSeq(ph, 5, 6))),
                         !.payload_len = Len(payload)]
    IN
    IF payload_empty(p1.payload_len) THEN ParseEnd("fail", p1)
    ELSE IF a = NULL THEN ParseEnd("die", p1)
    ELSE
    parse_optional(m, payload,
                   read_timestamp(m, attr, [p1 EXCEPT !.payload = payload_copy(src, a)]), attr)

\* ------------------------------------------------------------------ state

Threads == {1, 2}
SockIds == 1..MaxSockets
Blocks == 1..MaxBlocks
QueueNum == 5
NLH_NULL == -1

VARIABLES
    q,        \* struct nf_queue: queue_num, nl_socket (NULL or a socket)
    sockets,  \* the process's netlink sockets: st, released, bound
    proc,     \* "run", "assert" (DIE() after a failed ASSERT) or "crash"
    rxq,      \* datagrams queued by the kernel on the bound socket
    arrived,  \* datagrams the kernel has sent
    buf,      \* per thread: struct nf_buffer and the bytes of its region
    pc,       \* per thread: "idle", "recv" (between pselect and recvfrom),
              \*   "got" (holds a READY packet), "done" (has sent its verdict),
              \*   "spin" (inside nfqueue_next, which does not return)
    ret,      \* per thread: the last call and its result
    rx,       \* per thread: transport receive calls of the last nfqueue_receive
    pkt,      \* per thread: the caller's struct nf_packet
    heap,     \* payload blocks
    held,     \* a packet record handed to another thread for processing
    out,      \* per thread: the READY results since its last successful receive
    seen,     \* messages returned READY so far, and whether one was returned twice
    pending,  \* per thread: a received batch not yet iterated to NOT-READY
    menu,     \* the batches the kernel may send in this behaviour
    sent,     \* the batches the kernel has sent, in order
    call,     \* the last nfqueue_open or nfqueue_verdict: its result, errno, the
              \*   steps it took, the messages it handed to the send call and
              \*   the scratch buffers it allocated and freed
    send_buf_len,  \* SEND_BUF_LEN, the capacity of the scratch buffer
    log_done, \* per LOG_ONCE site: its static flag
    log_count,\* per LOG_ONCE site: the warnings emitted
    lpc       \* per thread: its position in a LOG_ONCE of nfqueue_parse

vars == <<q, sockets, proc, rxq, arrived, buf, pc, ret, rx, pkt, heap, held, out,
          seen, pending, menu, sent, call, send_buf_len, log_done, log_count, lpc>>

ZeroBuffer == [data |-> NULL, content |-> NoDatagram, nlh |-> NLH_NULL, len |-> 0]
NoRet == [fn |-> "none", val |-> 0]
NoRx == [calls |-> 0, bytes |-> 0, wait |-> "none", read |-> "none"]
NoHeld == [full |-> FALSE, packet |-> ZeroPacket, snap |-> << >>]
FreeBlock == [used |-> FALSE, bytes |-> << >>]
NoCall == [fn |-> "none", val |-> FALSE, errno |-> "none", steps |-> << >>, sends |-> << >>,
           mallocs |-> 0, frees |-> 0]

\* the handle argument of a public operation: NULL or the caller's struct nf_queue
Handles == {"NULL", "q"}

\* the two LOG_ONCE sites of nfqueue_parse
LogSites == {"timestamps", "conntrack"}
NoLog == [at |-> "out", ts |-> FALSE, ct |-> FALSE]

InitWith(batches) ==
    /\ menu = batches
    /\ call = NoCall
    /\ log_done = [site \in LogSites |-> FALSE]
    /\ log_count = [site \in LogSites |-> 0]
    /\ lpc = [t \in Threads |-> NoLog]
    /\ sent = << >>
    /\ q = [queue_num |-> 0, nl_socket |-> NULL]
    /\ sockets = [s \in SockIds |-> [st |-> "free", released |-> 0, bound |-> FALSE, nonblock |-> FALSE,
                                    verdicts |-> {}]]
    /\ proc = "run"
    /\ rxq = << >>
    /\ arrived = 0
    /\ buf = [t \in Threads |-> ZeroBuffer]
    /\ pc = [t \in Threads |-> "idle"]
    /\ ret = [t \in Threads |-> NoRet]
    /\ rx = [t \in Threads |-> NoRx]
    /\ pkt = [t \in Threads |-> ZeroPacket]
    /\ heap = [a \in Blocks |-> FreeBlock]
    /\ held = NoHeld
    /\ out = [t \in Threads |-> << >>]
    /\ seen = [ids |-> {}, dup |-> FALSE]
    /\ pending = [t \in Threads |-> FALSE]

\* the handle's socket is a live socket of the process
SocketOpen == q.nl_socket # NULL /\ sockets[q.nl_socket].st = "open"

\* ------------------------------------------------------------ queue handle

\* the socket mnl_socket_open2 returns: NULL when socket() fails
NewSocket(fail) ==
    IF fail \/ \A s \in SockIds : sockets[s].st # "free" THEN NULL
    ELSE CHOOSE s \in SockIds : sockets[s].st = "free" /\ \A r \in SockIds : sockets[r].st = "free" => s <= r

\* SOCK_NONBLOCK, the flag nfqueue_open passes to mnl_socket_open2
open_flags == TRUE

\* a variant of open_goes_on that runs the next step whatever the last one did
open_goes_on_always(ok) == TRUE

\* nfqueue_open takes its next step only when the one before succeeded
open_goes_on(ok) == ok

\* the steps of nfqueue_open on socket s (NULL: socket creation failed).  failAt
\* names the system call that fails (0: none): 1 socket creation, 2 socket
\* bind, 3 the send call of the BIND command, 4 that of the CONFIGURE command.
open_run(s, failAt, queue_len, cap, errno0) ==
    LET st1 == [step |-> "socket", ok |-> s # NULL]
        st2 == [step |-> "bind", ok |-> failAt # 2]
        c3 == send_built(bind_command(QueueNum, cap), failAt # 3, errno0)
        st3 == [step |-> "BIND", ok |-> c3.ret >= 0]
        c4 == send_built(set_params_command(QueueNum, NFQNL_COPY_PACKET, COPY_RANGE, queue_len,
                                            NFQA_CFG_F_CONNTRACK, cap),
                         failAt # 4, c3.errno)
        st4 == [step |-> "CONFIGURE", ok |-> c4.ret >= 0]
        n == IF ~open_goes_on(st1.ok) THEN 1
             ELSE IF ~open_goes_on(st2.ok) THEN 2
             ELSE IF ~open_goes_on(st3.ok) THEN 3
             ELSE 4
    IN [ steps   |-> SubSeq(<<st1, st2, st3, st4>>, 1, n),
         val     |-> n = 4 /\ st4.ok,
         errno   |-> IF n = 1 THEN "EMFILE" ELSE IF n = 2 THEN "EADDRINUSE"
                     ELSE IF n = 3 THEN c3.errno ELSE c4.errno,
         sends   |-> (IF n >= 3 THEN c3.sends ELSE << >>) \o (IF n >= 4 THEN c4.sends ELSE << >>),
         mallocs |-> (IF n >= 3 THEN c3.mallocs ELSE 0) + (IF n >= 4 THEN c4.mallocs ELSE 0),
         frees   |-> (IF n >= 3 THEN c3.frees ELSE 0) + (IF n >= 4 THEN c4.frees ELSE 0) ]

\* nfqueue_open.  The kernel refuses a second BIND of the queue while another
\* socket of the process holds it.
nfqueue_open(failAt, queue_len) ==
    /\ proc = "run"
    /\ \A t \in Threads : pc[t] = "idle"
    /\ LET s == NewSocket(failAt = 1)
           busy == \E r \in SockIds : sockets[r].st = "open" /\ sockets[r].bound
           r == open_run(s, failAt, queue_len, send_buf_len, call.errno)
       IN /\ q' = [queue_num |-> QueueNum, nl_socket |-> s]
          /\ sockets' = IF s = NULL THEN sockets
                        ELSE [sockets EXCEPT ![s] = [st |-> "open", released |-> 0,
                                                   bound |-> r.val /\ ~busy,
                                                   nonblock |-> open_flags, verdicts |-> {}]]
          /\ call' = [fn |-> "open", val |-> r.val, errno |-> r.errno, steps |-> r.steps,
                      sends |-> r.sends, mallocs |-> r.mallocs, frees |-> r.frees]
    /\ UNCHANGED <<proc, rxq, arrived, buf, pc, ret, rx, pkt, heap, held, out, seen, pending, menu, sent,
                   send_buf_len, log_done, log_count, lpc>>

\* mnl_socket_close on a socket already released: the second release happens and
\* the process either goes on or is killed by the allocator
reclose_outcomes == {"run", "crash"}

\* nfqueue_close
nfqueue_close(h) ==
    /\ proc = "run"
    /\ \A t \in Threads : pc[t] \in {"idle", "got", "done"}
    /\ IF h = "NULL" \/ q.nl_socket = NULL
       THEN /\ proc' = "assert"
            /\ UNCHANGED <<sockets, rxq>>
       ELSE LET s == q.nl_socket IN
            /\ sockets[s].released < MaxReleases
            /\ sockets' = [sockets EXCEPT ![s].st = "closed", ![s].released = @ + 1]
            /\ rxq' = IF sockets[s].st = "open" /\ sockets[s].bound THEN << >> ELSE rxq
            /\ IF sockets[s].st = "open" THEN proc' = "run" ELSE proc' \in reclose_outcomes
    /\ UNCHANGED <<q, arrived, buf, pc, ret, rx, pkt, heap, held, out, seen, pending, menu, sent, call, send_buf_len, log_done, log_count, lpc>>

\* the kernel queues one datagram on the bound socket
Arrive(b) ==
    /\ proc = "run"
    /\ arrived < MaxArrivals
    /\ SocketOpen /\ sockets[q.nl_socket].bound
    /\ arrived' = arrived + 1
    /\ b \in menu
    /\ rxq' = Append(rxq, [tmpl |-> b, serial |-> arrived + 1])
    /\ sent' = Append(sent, b)
    /\ UNCHANGED <<q, sockets, proc, buf, pc, ret, rx, pkt, heap, held, out, seen, pending, menu, call, send_buf_len, log_done, log_count, lpc>>


\* ---------------------------------------------------------------- receive

WaitEvents == {"timeout", "signal", "error", "readable"}
ReadEvents == {"data", "eagain", "eintr", "error", "eof"}
Timeouts == {0, 100}

\* pselect: its return value and errno
pselect(ev) ==
    CASE ev = "readable" -> [retval |-> 1, errno |-> "none"]
      [] ev = "timeout"  -> [retval |-> 0, errno |-> "none"]
      [] ev = "signal"   -> [retval |-> -1, errno |-> "EINTR"]
      [] OTHER           -> [retval |-> -1, errno |-> "EBADF"]

recv_timeout(ev) ==
    LET r == pselect(ev) IN
    IF r.retval = -1 /\ r.errno = "EINTR" THEN 0 ELSE r.retval

\* nfqueue_receive up to the receive call: the result it returns, or "go"
receive_wait(ev) ==
    LET retval == recv_timeout(ev) IN
    IF retval = 0 THEN "NOTREADY"
    ELSE IF retval < 1
         THEN IF pselect(ev).errno = "EINTR" THEN "NOTREADY" ELSE "ERROR"
         ELSE "go"

\* mnl_socket_recvfrom: the length it returns and errno
mnl_socket_recvfrom(ev) ==
    CASE ev = "data"   -> [len |-> DatagramLen(Head(rxq)), errno |-> "none"]
      [] ev = "eagain" -> [len |-> -1, errno |-> "EAGAIN"]
      [] ev = "eintr"  -> [len |-> -1, errno |-> "EINTR"]
      [] ev = "eof"    -> [len |-> 0, errno |-> "none"]
      [] OTHER         -> [len |-> -1, errno |-> "ENOBUFS"]

\* a variant of receive_result for which only an interrupted call is transient
receive_result_strict(r) ==
    IF r.len < 0
    THEN IF r.errno = "EINTR" THEN IO_NOTREADY ELSE IO_ERROR
    ELSE IF r.len = 0 THEN IO_ERROR
    ELSE IO_READY

\* a variant of receive_result without the test for a zero length
receive_result_noeof(r) ==
    IF r.len < 0
    THEN IF r.errno \in {"EAGAIN", "EWOULDBLOCK", "EINTR"} THEN IO_NOTREADY ELSE IO_ERROR
    ELSE IO_READY

\* nfqueue_receive after the receive call: the result for its length and errno
receive_result(r) ==
    IF r.len < 0
    THEN IF r.errno \in {"EAGAIN", "EWOULDBLOCK", "EINTR"} THEN IO_NOTREADY ELSE IO_ERROR
    ELSE IF r.len = 0 THEN IO_ERROR
    ELSE IO_READY

\* a variant of receive_store that leaves the cursor where it is
receive_store_keep(b, d, len) == [b EXCEPT !.content = d, !.len = len]

\* the buffer after a successful receive of datagram d into its region:
\* buf->len = len; buf->nlh = (struct nlmsghdr*)buf->data
receive_store(b, d, len) == [b EXCEPT !.content = d, !.len = len, !.nlh = 0]

\* a variant of receive_commit that stores the length the call returned
\* whatever it is
receive_commit_always(b, r, queue) == [b EXCEPT !.len = r.len, !.nlh = 0]

\* the buffer after the receive call returned r, queue being the datagrams the
\* socket held: buf->len and buf->nlh are assigned only past every return
\* of IO_NOTREADY and IO_ERROR
receive_commit(b, r, queue) ==
    IF receive_result(r) = IO_READY THEN receive_store(b, Head(queue), r.len) ELSE b

IoCode(name) == IF name = "NOTREADY" THEN IO_NOTREADY ELSE IO_ERROR

\* nfqueue_receive, first part: the assertions, the first-use allocation of the
\* region and the wait for the socket (recv_timeout)
nfqueue_receive_wait(t, h, timeout_ms, ev) ==
    /\ proc = "run"
    /\ pc[t] = "idle"
    /\ IF h = "NULL" \/ q.nl_socket = NULL
       THEN /\ proc' = "assert"
            /\ UNCHANGED <<buf, pc, ret, rx>>
       ELSE /\ ev = "timeout" => timeout_ms > 0 /\ rxq = << >>
            /\ ev = "readable" => SocketOpen /\ rxq # << >>
            /\ ~SocketOpen => ev = "error"
            /\ buf' = [buf EXCEPT ![t].data = 1]
            /\ rx' = [rx EXCEPT ![t] = [NoRx EXCEPT !.wait = ev]]
            /\ LET w == receive_wait(ev) IN
               IF w = "go"
               THEN /\ pc' = [pc EXCEPT ![t] = "recv"]
                    /\ ret' = ret
               ELSE /\ pc' = pc
                    /\ ret' = [ret EXCEPT ![t] = [fn |-> "receive", val |-> IoCode(w)]]
            /\ proc' = proc
    /\ UNCHANGED <<q, sockets, rxq, arrived, pkt, heap, held, out, seen, pending, menu, sent, call, send_buf_len, log_done, log_count, lpc>>

\* nfqueue_receive, second part: the receive call and what follows it
nfqueue_receive_read(t, ev) ==
    /\ proc = "run"
    /\ pc[t] = "recv"
    /\ ev = "data" => rxq # << >>
    /\ ev = "eagain" => rxq = << >> /\ q.nl_socket # NULL /\ sockets[q.nl_socket].nonblock
    /\ LET r == mnl_socket_recvfrom(ev)
           val == receive_result(r)
       IN /\ rx' = [rx EXCEPT ![t] = [@ EXCEPT !.calls = @ + 1, !.bytes = r.len, !.read = ev]]
          /\ rxq' = IF ev = "data" THEN Tail(rxq) ELSE rxq
          /\ ret' = [ret EXCEPT ![t] = [fn |-> "receive", val |-> val]]
          /\ buf' = [buf EXCEPT ![t] = receive_commit(@, r, rxq)]
          /\ IF val = IO_READY
             THEN /\ out' = [out EXCEPT ![t] = << >>]
                  /\ pending' = [pending EXCEPT ![t] = TRUE]
             ELSE UNCHANGED <<out, pending>>
    /\ pc' = [pc EXCEPT ![t] = "idle"]
    /\ UNCHANGED <<q, sockets, proc, arrived, pkt, heap, held, seen, menu, sent, call, send_buf_len, log_done, log_count, lpc>>


\* ---------------------------------------------------------------- iterate

\* index of the message that starts at offset off of datagram d (0: none)
IdxAt(d, off) ==
    IF \E i \in 1..Len(d.tmpl) : StartOf(d, i) = off
    THEN CHOOSE i \in 1..Len(d.tmpl) : StartOf(d, i) = off
    ELSE 0

\* mnl_nlmsg_ok(buf->nlh, buf->len)
mnl_nlmsg_ok(b) ==
    /\ b.len >= MNL_NLMSG_HDRLEN
    /\ IdxAt(b.content, b.nlh) # 0
    /\ LET m == MsgOf(b.content, IdxAt(b.content, b.nlh)) IN
       /\ m.nlmsg_len >= MNL_NLMSG_HDRLEN
       /\ m.nlmsg_len <= b.len

\* a variant of mnl_nlmsg_next that moves the cursor and keeps the length
mnl_nlmsg_next_cursor_only(b) ==
    [b EXCEPT !.nlh = @ + MNL_ALIGN(MsgOf(b.content, IdxAt(b.content, b.nlh)).nlmsg_len)]

\* buf->nlh = mnl_nlmsg_next(buf->nlh, &buf->len)
mnl_nlmsg_next(b) ==
    LET m == MsgOf(b.content, IdxAt(b.content, b.nlh)) IN
    [b EXCEPT !.nlh = @ + MNL_ALIGN(m.nlmsg_len), !.len = @ - MNL_ALIGN(m.nlmsg_len)]

\* nlmsg_flags & NLM_F_DUMP_INTR
dump_interrupted(m) == (m.nlmsg_flags \div NLM_F_DUMP_INTR) % 2 = 1

\* a variant of skip_control that steps over the message
skip_control_advance(b) == mnl_nlmsg_next(b)

\* the buffer after a loop iteration on a message of type below NLMSG_MIN_TYPE:
\* the loop body has no branch for it and goes back to the loop test
skip_control(b) == b

\* a variant of after_error that steps over the rejected message
after_error_advance(b) == mnl_nlmsg_next(b)

\* the buffer when nfqueue_next returns IO_ERROR
after_error(b) == b

\* a variant of after_ready that leaves the cursor where it is
after_ready_stay(b) == b

\* the buffer when nfqueue_next returns IO_READY
after_ready(b) == mnl_nlmsg_next(b)

NoParse == [res |-> "none", packet |-> ZeroPacket, alloc |-> FALSE, bytes |-> << >>, warn |-> {}]

RECURSIVE next_loop(_, _, _, _)
\* the loop of nfqueue_next from buffer b of thread t.  hang: the loop never
\* ends; val: the result; buf: the buffer afterwards; idx: the message parsed
\* (0: none) and parse: what nfqueue_parse did
next_loop(b, t, a, now) ==
    IF ~mnl_nlmsg_ok(b)
    THEN [hang |-> FALSE, val |-> IO_NOTREADY, buf |-> b, idx |-> 0, parse |-> NoParse]
    ELSE
    LET i == IdxAt(b.content, b.nlh)
        m == MsgOf(b.content, i)
    IN
    IF dump_interrupted(m)
    THEN [hang |-> FALSE, val |-> IO_ERROR, buf |-> after_error(b), idx |-> 0, parse |-> NoParse]
    ELSE IF m.nlmsg_type >= NLMSG_MIN_TYPE
    THEN LET r == nfqueue_parse(m, pkt[t], BufPtr(t, i), a, now) IN
         IF r.res = "ok"
         THEN [hang |-> FALSE, val |-> IO_READY, buf |-> after_ready(b), idx |-> i, parse |-> r]
         ELSE [hang |-> FALSE, val |-> IO_ERROR, buf |-> after_error(b), idx |-> i, parse |-> r]
    ELSE IF skip_control(b) = b
    THEN [hang |-> TRUE, val |-> IO_NOTREADY, buf |-> b, idx |-> 0, parse |-> NoParse]
    ELSE next_loop(skip_control(b), t, a, now)

\* malloc: a free block, NULL when there is none
malloc ==
    IF \A a \in Blocks : heap[a].used THEN NULL
    ELSE CHOOSE a \in Blocks : ~heap[a].used /\ \A c \in Blocks : ~heap[c].used => a <= c

Now == arrived + 1

\* the effect of nfqueue_next on thread t when its loop ends in r, a being the
\* block malloc had to give
next_return(t, a, r) ==
    /\ proc' = proc
    /\ log_done' = [site \in LogSites |-> log_done[site] \/ site \in r.parse.warn]
    /\ log_count' = [site \in LogSites |->
                        IF site \in r.parse.warn /\ ~log_done[site]
                        THEN log_count[site] + 1 ELSE log_count[site]]
    /\ buf' = [buf EXCEPT ![t] = r.buf]
    /\ ret' = [ret EXCEPT ![t] = [fn |-> "next", val |-> r.val]]
    /\ pkt' = IF r.parse.res = "none" THEN pkt
              ELSE [pkt EXCEPT ![t] = r.parse.packet]
    /\ heap' = IF r.parse.alloc
               THEN [heap EXCEPT ![a] = [used |-> TRUE, bytes |-> r.parse.bytes]]
               ELSE heap
    /\ out' = IF r.val = IO_READY
              THEN [out EXCEPT ![t] = Append(@, [serial |-> buf[t].content.serial,
                                                 idx |-> r.idx,
                                                 packet_id |-> r.parse.packet.packet_id])]
              ELSE out
    /\ seen' = IF r.val = IO_READY
               THEN [ids |-> seen.ids \cup {<<buf[t].content.serial, r.idx>>},
                     dup |-> seen.dup \/ <<buf[t].content.serial, r.idx>> \in seen.ids]
               ELSE seen
    /\ pc' = IF r.val = IO_READY THEN [pc EXCEPT ![t] = "got"] ELSE pc
    /\ pending' = IF r.val = IO_NOTREADY THEN [pending EXCEPT ![t] = FALSE]
                  ELSE pending

\* nfqueue_next on a buffer that has its data block, the loop ending in r
next_outcome(t, a, r) ==
    IF r.hang
    THEN /\ pc' = [pc EXCEPT ![t] = "spin"]
         /\ UNCHANGED <<proc, buf, ret, pkt, heap, out, seen, pending, log_done, log_count>>
    ELSE IF r.parse.res = "die"
    THEN /\ proc' = "assert"
         /\ pkt' = [pkt EXCEPT ![t] = r.parse.packet]
         /\ UNCHANGED <<buf, pc, ret, heap, out, seen, pending, log_done, log_count>>
    ELSE next_return(t, a, r)

\* nfqueue_next
nfqueue_next(t) ==
    /\ proc = "run"
    /\ pc[t] = "idle"
    /\ IF buf[t].data = NULL
       THEN /\ proc' = "assert"
            /\ UNCHANGED <<buf, pc, ret, pkt, heap, out, seen, pending, log_done, log_count>>
       ELSE next_outcome(t, malloc, next_loop(buf[t], t, malloc, Now))
    /\ UNCHANGED <<q, sockets, rxq, arrived, rx, held, menu, sent, call, send_buf_len, lpc>>

\* what a payload pointer points to now
Deref(p) ==
    CASE p.kind = "heap" -> heap[p.ref[1]].bytes
      [] p.kind = "buf"  ->
            LET d == buf[p.ref[1]].content IN
            IF p.ref[2] \in 1..Len(d.tmpl)
               /\ \E k \in 1..Len(MsgOf(d, p.ref[2]).attrs) :
                      MsgOf(d, p.ref[2]).attrs[k].type = NFQA_PAYLOAD
            THEN LET at == MsgOf(d, p.ref[2]).attrs IN
                 at[CHOOSE k \in 1..Len(at) : at[k].type = NFQA_PAYLOAD].val
            ELSE << >>
      [] OTHER -> << >>

\* free(p) by the caller
free(p) ==
    IF p.kind = "heap" THEN [heap EXCEPT ![p.ref[1]] = FreeBlock] ELSE heap

\* mnl_socket_sendto on a NULL or released socket: the process goes on (the
\* call fails) or is killed
bad_socket_outcomes == {"run", "crash"}

\* nfqueue_verdict; sendOk: whether the send call succeeds
nfqueue_verdict(t, h, packet_id, verdict, connmark, sendOk) ==
    /\ proc = "run"
    /\ pc[t] \in {"idle", "got"}
    /\ IF h = "NULL"
       THEN /\ proc' = "assert"
            /\ UNCHANGED <<sockets, pc, call>>
       ELSE LET b == verdict_command(q.queue_num, packet_id, verdict, connmark, send_buf_len)
                bad == b.stage = "built" /\ ~SocketOpen
                r == send_built(b, sendOk, call.errno)
            IN /\ bad => ~sendOk
               /\ IF bad THEN proc' \in bad_socket_outcomes ELSE proc' = proc
               /\ sockets' = IF r.ret >= 0
                             THEN [sockets EXCEPT ![q.nl_socket].verdicts =
                                       @ \cup {<<packet_id, verdict>>}]
                             ELSE sockets
               /\ call' = [fn |-> "verdict", val |-> r.ret >= 0, errno |-> r.errno,
                           steps |-> << >>, sends |-> r.sends,
                           mallocs |-> r.mallocs, frees |-> r.frees]
               /\ pc' = [pc EXCEPT ![t] = IF @ = "got" THEN "done" ELSE @]
    /\ UNCHANGED <<q, rxq, arrived, buf, ret, rx, pkt, heap, held, out, seen, pending, menu, sent,
                   send_buf_len, log_done, log_count, lpc>>

\* the caller is done with the packet: free(packet->payload)
free_payload(t) ==
    /\ proc = "run"
    /\ pc[t] \in {"got", "done"}
    /\ heap' = free(pkt[t].payload)
    /\ pc' = [pc EXCEPT ![t] = "idle"]
    /\ UNCHANGED <<q, sockets, proc, rxq, arrived, buf, ret, rx, pkt, held, out, seen, pending, menu, sent, call, send_buf_len, log_done, log_count, lpc>>

\* the caller hands the packet record to another thread, which processes it
\* while the caller goes on with its buffer
hand_off(t) ==
    /\ proc = "run"
    /\ pc[t] = "got"
    /\ ~held.full
    /\ held' = [full |-> TRUE, packet |-> pkt[t], snap |-> Deref(pkt[t].payload)]
    /\ pc' = [pc EXCEPT ![t] = "idle"]
    /\ UNCHANGED <<q, sockets, proc, rxq, arrived, buf, ret, rx, pkt, heap, out, seen, pending, menu, sent, call, send_buf_len, log_done, log_count, lpc>>

\* the processing thread is done: free(packet->payload)
release_held ==
    /\ proc = "run"
    /\ held.full
    /\ heap' = free(held.packet.payload)
    /\ held' = NoHeld
    /\ UNCHANGED <<q, sockets, proc, rxq, arrived, buf, pc, ret, rx, pkt, out, seen, pending, menu, sent, call, send_buf_len, log_done, log_count, lpc>>

\* ------------------------------------------------------------------ logging

\* The two LOG_ONCE statements of nfqueue_parse each expand to a block with its
\* own "static bool done", which every thread inside nfqueue_parse reads and
\* writes without a lock.  The rest of nfqueue_parse works on the caller's
\* message and packet record, so these are the steps at which threads that
\* assemble packets at the same time meet.

\* where a thread goes after the LOG_ONCE of site from: the next LOG_ONCE its
\* message reaches, or out of nfqueue_parse
log_after(from, l) ==
    IF from = "enter" /\ l.ts THEN [l EXCEPT !.at = "ts_test"]
    ELSE IF from \in {"enter", "timestamps"} /\ l.ct THEN [l EXCEPT !.at = "ct_test"]
    ELSE NoLog

log_site(at) == IF at \in {"ts_test", "ts_log"} THEN "timestamps" ELSE "conntrack"

\* thread t enters nfqueue_parse on a message of the given kind
parse_enter(t, kind) ==
    /\ proc = "run"
    /\ lpc[t].at = "out"
    /\ LET r == nfqueue_parse(Msg(kind, 1, 1), pkt[t], BufPtr(t, 1), 1, Now) IN
       lpc' = [lpc EXCEPT ![t] = log_after("enter", [at |-> "out",
                                                     ts |-> "timestamps" \in r.warn,
                                                     ct |-> "conntrack" \in r.warn])]
    /\ UNCHANGED <<q, sockets, proc, rxq, arrived, buf, pc, ret, rx, pkt, heap, held, out, seen,
                   pending, menu, sent, call, send_buf_len, log_done, log_count>>

\* if (!done)
log_once_test(t) ==
    /\ proc = "run"
    /\ lpc[t].at \in {"ts_test", "ct_test"}
    /\ lpc' = [lpc EXCEPT ![t] =
                  IF log_done[log_site(@.at)] THEN log_after(log_site(@.at), @)
                  ELSE [@ EXCEPT !.at = IF @ = "ts_test" THEN "ts_log" ELSE "ct_log"]]
    /\ UNCHANGED <<q, sockets, proc, rxq, arrived, buf, pc, ret, rx, pkt, heap, held, out, seen,
                   pending, menu, sent, call, send_buf_len, log_done, log_count>>

\* { LOG(...); done = true; }
log_once_emit(t) ==
    /\ proc = "run"
    /\ lpc[t].at \in {"ts_log", "ct_log"}
    /\ log_count' = [log_count EXCEPT ![log_site(lpc[t].at)] = @ + 1]
    /\ log_done' = [log_done EXCEPT ![log_site(lpc[t].at)] = TRUE]
    /\ lpc' = [lpc EXCEPT ![t] = log_after(log_site(@.at), @)]
    /\ UNCHANGED <<q, sockets, proc, rxq, arrived, buf, pc, ret, rx, pkt, heap, held, out, seen,
                   pending, menu, sent, call, send_buf_len>>

\* --------------------------------------------------------- specifications

\* the caller opens the queue before anything else
open_once(failAt, queue_len) ==
    /\ \A s \in SockIds : sockets[s].st = "free"
    /\ nfqueue_open(failAt, queue_len)

MenuIter == { <<"evt", "evtU">>, <<"ctl", "evt">>, <<"intr", "evt">>, <<"nohdr", "evt">> }

Init == InitWith(MenuIter) /\ send_buf_len = MNL_SOCKET_BUFFER_SIZE

\* one worker thread that calls receive and next in any order
Next ==
    \/ \E failAt \in 0..4 : open_once(failAt, 0)
    \/ \E b \in Batches : Arrive(b)
    \/ \E h \in Handles, tm \in Timeouts, ev \in WaitEvents : nfqueue_receive_wait(1, h, tm, ev)
    \/ \E ev \in ReadEvents : nfqueue_receive_read(1, ev)
    \/ nfqueue_next(1)
    \/ free_payload(1)

Spec == Init /\ [][Next]_vars

NF_ACCEPT == 1

MenuHold == { <<"evt">>, <<"evt", "evtU">> }

InitHold == InitWith(MenuHold) /\ send_buf_len = MNL_SOCKET_BUFFER_SIZE

\* a worker thread that hands packets to a processing thread
NextHold ==
    \/ \E failAt \in 0..4 : open_once(failAt, 0)
    \/ \E b \in Batches : Arrive(b)
    \/ \E h \in Handles, tm \in Timeouts, ev \in WaitEvents : nfqueue_receive_wait(1, h, tm, ev)
    \/ \E ev \in ReadEvents : nfqueue_receive_read(1, ev)
    \/ nfqueue_next(1)
    \/ free_payload(1)
    \/ hand_off(1)
    \/ release_held

SpecHold == InitHold /\ [][NextHold]_vars

MenuMT == { <<"evt">>, <<"evt", "evtU">>, <<"ctl", "evt">> }

InitMT == InitWith(MenuMT) /\ send_buf_len = MNL_SOCKET_BUFFER_SIZE

\* a thread that receives again only after it has iterated its batch to NOT-READY
disciplined_receive_wait(t, tm, ev) ==
    /\ ~pending[t]
    /\ nfqueue_receive_wait(t, "q", tm, ev)

\* a thread accepts the packet nfqueue_next gave it, without a mark
verdict_for_packet(t, sendOk) ==
    /\ pc[t] = "got"
    /\ nfqueue_verdict(t, "q", pkt[t].packet_id, NF_ACCEPT, Wide(-1, 65535), sendOk)

\* worker threads that share the handle, each with its own buffer
NextMT ==
    \/ open_once(0, 0)
    \/ \E b \in Batches : Arrive(b)
    \/ \E t \in Threads :
        \/ \E tm \in Timeouts, ev \in WaitEvents : disciplined_receive_wait(t, tm, ev)
        \/ \E ev \in ReadEvents : nfqueue_receive_read(t, ev)
        \/ nfqueue_next(t)
        \/ \E sendOk \in BOOLEAN : verdict_for_packet(t, sendOk)
        \/ free_payload(t)

SpecMT == InitMT /\ [][NextMT]_vars

MenuRace == { <<"evt">> }

InitRace == InitWith(MenuRace) /\ send_buf_len = MNL_SOCKET_BUFFER_SIZE

\* two threads that receive from the shared socket in any order
NextRace ==
    \/ open_once(0, 0)
    \/ \E b \in Batches : Arrive(b)
    \/ \E t \in Threads :
        \/ \E h \in Handles, tm \in Timeouts, ev \in WaitEvents : nfqueue_receive_wait(t, h, tm, ev)
        \/ \E ev \in ReadEvents : nfqueue_receive_read(t, ev)
        \/ nfqueue_next(t)
        \/ free_payload(t)

SpecRace == InitRace /\ [][NextRace]_vars

MenuLife == { <<"evt">> }

InitLife == InitWith(MenuLife) /\ send_buf_len = MNL_SOCKET_BUFFER_SIZE

\* a caller that uses the handle operations in any order, on any handle
NextLife ==
    \/ \E failAt \in 0..4 : nfqueue_open(failAt, 0)
    \/ \E h \in Handles : nfqueue_close(h)
    \/ \E b \in Batches : Arrive(b)
    \/ \E h \in Handles, tm \in Timeouts, ev \in WaitEvents : nfqueue_receive_wait(1, h, tm, ev)
    \/ \E ev \in ReadEvents : nfqueue_receive_read(1, ev)
    \/ \E h \in Handles, sendOk \in BOOLEAN :
           nfqueue_verdict(1, h, PidOf(1, 1), NF_ACCEPT, Wide(-1, 65535), sendOk)

SpecLife == InitLife /\ [][NextLife]_vars

\* the capacities of the scratch buffer a build may have
SendBufLens == {12, 16, 24, 32, 40, 48, 64, MNL_SOCKET_BUFFER_SIZE}
QueueLens == {0, 1024}
PacketIds == {258}
NF_DROP == 0
Verdicts == {NF_DROP, NF_ACCEPT}
Connmarks == {Wide(-1, 65535), Wide(-2, 5), Wide(0, 0), Wide(0, 258), Wide(65535, 65535)}

MenuCmd == { <<"evt">> }

InitCmd == InitWith(MenuCmd) /\ send_buf_len \in SendBufLens

\* a caller that opens and closes the handle and sends verdicts in any order
NextCmd ==
    \/ \E failAt \in 0..4, queue_len \in QueueLens : open_once(failAt, queue_len)
    \/ \E h \in Handles : nfqueue_close(h)
    \/ \E h \in Handles, id \in PacketIds, v \in Verdicts, cm \in Connmarks, sendOk \in BOOLEAN :
           nfqueue_verdict(1, h, id, v, cm, sendOk)

SpecCmd == InitCmd /\ [][NextCmd]_vars

\* the messages the threads assemble: with and without a timestamp, with and
\* without tracking data, and two that fail before or between the warnings
LogKinds == {"evt", "evtTs", "evtTs0", "evtCt", "evtCtNoMark", "badCtId", "nohdr"}

MenuLog == { <<"evt">> }

InitLog == InitWith(MenuLog) /\ send_buf_len = MNL_SOCKET_BUFFER_SIZE

\* worker threads inside nfqueue_parse at the same time
NextLog ==
    \E t \in Threads :
        \/ \E kind \in LogKinds : parse_enter(t, kind)
        \/ log_once_test(t)
        \/ log_once_emit(t)

SpecLog == InitLog /\ [][NextLog]_vars

\* one event message of every kind the assembler tells apart, alone in its
\* datagram or followed by a plain event message
ParseKinds == {"evt"} \cup FieldKinds \cup LackingKinds \cup BadLengthKinds \cup MixedKinds
ParseBatches == { <<k>> : k \in ParseKinds } \cup { <<"evtCt", "evtTs0">>, <<"evtTs", "evt">>, <<"evtCt", "evtCtNoMark">> }

\* a behaviour receives the datagrams of one batch
InitParse == (\E b \in ParseBatches : InitWith({b})) /\ send_buf_len = MNL_SOCKET_BUFFER_SIZE

\* one worker thread that receives and assembles packets
NextParse ==
    \/ open_once(0, 0)
    \/ \E b \in ParseBatches : Arrive(b)
    \/ \E tm \in Timeouts, ev \in WaitEvents : nfqueue_receive_wait(1, "q", tm, ev)
    \/ \E ev \in ReadEvents : nfqueue_receive_read(1, ev)
    \/ nfqueue_next(1)
    \/ free_payload(1)

SpecParse == InitParse /\ [][NextParse]_vars

\* ------------------------------------------------------------ properties

Ret(fn, val) == [fn |-> fn, val |-> val]

\* the kind of the message the cursor of thread t addresses ("none": no message)
CursorKind(t) ==
    LET i == IdxAt(buf[t].content, buf[t].nlh) IN
    IF i = 0 THEN "none" ELSE buf[t].content.tmpl[i]

\* the messages of a batch that are well-formed events, in arrival order
RECURSIVE EventsOf(_, _)
EventsOf(tmpl, i) ==
    IF i > Len(tmpl) THEN << >>
    ELSE (IF tmpl[i] \in {"evt", "evtU"} THEN <<i>> ELSE << >>) \o EventsOf(tmpl, i + 1)

\* out[t] is the first READY results of the events of the batch, in order,
\* each with the packet id the kernel gave the message
YieldsInOrder(t) ==
    LET d == buf[t].content
        ev == EventsOf(d.tmpl, 1)
    IN /\ Len(out[t]) <= Len(ev)
       /\ \A k \in 1..Len(out[t]) :
              /\ k <= Len(ev)
              /\ out[t][k].serial = d.serial
              /\ out[t][k].idx = ev[k]
              /\ out[t][k].packet_id = PidOf(d.serial, ev[k])

\* C1: for a batch of N complete well-formed event messages, nfqueue_next
\* returns READY exactly N times, the i-th READY with the packet id of the i-th
\* message, and NOT-READY (never ERROR, never without returning) after that.
C1_BatchIteration ==
    \A t \in Threads :
        buf[t].content.tmpl \in WellFormedBatches =>
            /\ YieldsInOrder(t)
            /\ pc[t] # "spin"
            /\ ret[t].fn = "next" => ret[t].val # IO_ERROR
            /\ ret[t] = Ret("next", IO_NOTREADY) => Len(out[t]) = Len(buf[t].content.tmpl)
            /\ ret[t] = Ret("next", IO_READY) => Len(out[t]) >= 1

C1_Witness ==
    /\ buf[1].content.tmpl = <<"evt", "evtU">>
    /\ ret[1] = Ret("next", IO_NOTREADY)
    /\ Len(out[1]) = 2

\* C2 (as claimed): for a batch that mixes control messages with well-formed
\* event messages, nfqueue_next returns, the READY results are the event
\* messages in order, and NOT-READY comes once the batch is exhausted.
C2_SkipsControl ==
    \A t \in Threads :
        (/\ buf[t].content.tmpl # << >>
         /\ \A i \in 1..Len(buf[t].content.tmpl) : buf[t].content.tmpl[i] \in {"evt", "evtU", "ctl"}
         /\ \E i \in 1..Len(buf[t].content.tmpl) : buf[t].content.tmpl[i] = "ctl") =>
            /\ YieldsInOrder(t)
            /\ pc[t] # "spin"
            /\ ret[t].fn = "next" => ret[t].val # IO_ERROR
            /\ ret[t] = Ret("next", IO_NOTREADY) =>
                   Len(out[t]) = Len(EventsOf(buf[t].content.tmpl, 1))

\* C5: when the message at the cursor has the dump-interrupted flag,
\* nfqueue_next returns ERROR and leaves the cursor and the remaining length
\* as they were (so the next call finds the same message).
C5_DumpInterrupted ==
    [][ \A t \in Threads :
            (CursorKind(t) = "intr" /\ buf[t].len > 0 /\ nfqueue_next(t)) =>
                /\ ret'[t] = Ret("next", IO_ERROR)
                /\ buf'[t].nlh = buf[t].nlh
                /\ buf'[t].len = buf[t].len
                /\ CursorKind(t)' = "intr" ]_vars

C5_Witness ==
    /\ CursorKind(1) = "intr"
    /\ ret[1] = Ret("next", IO_ERROR)

\* C6 (as claimed): after nfqueue_next returned ERROR because the assembler
\* rejected the message at the cursor, a later nfqueue_next on the same buffer
\* returns the well-formed message that follows it READY.
C6_ErrorScopedToMessage ==
    [][ \A t \in Threads :
            (/\ ret[t] = Ret("next", IO_ERROR)
             /\ buf[t].content.tmpl \in { <<"nohdr", "evt">>, <<"badhdr", "evt">>, <<"zeropl", "evt">> }
             /\ nfqueue_next(t)) =>
                ret'[t] = Ret("next", IO_READY) ]_vars

\* C7: when nfqueue_receive returns READY it made exactly one transport receive
\* call, the buffer's length is the positive number of bytes received, and the
\* cursor is at the start of the new datagram, which has left the socket; what
\* was left of the previous batch is gone.
C7_ReceiveResets ==
    \A t \in Threads :
        (pc[t] # "recv" /\ ret[t] = Ret("receive", IO_READY)) =>
            /\ rx[t].calls = 1
            /\ rx[t].bytes > 0
            /\ buf[t].len = rx[t].bytes
            /\ buf[t].len = DatagramLen(buf[t].content)
            /\ buf[t].nlh = 0
            /\ CursorKind(t) = buf[t].content.tmpl[1]
            /\ out[t] = << >>
            /\ \A k \in 1..Len(rxq) : rxq[k].serial > buf[t].content.serial

C7_Witness ==
    /\ ret[1] = Ret("receive", IO_READY)
    /\ buf[1].content.serial = 2
    /\ <<1, 2>> \notin seen.ids
    /\ <<1, 1>> \in seen.ids


\* no thread can deliver anything more: the socket is empty and every thread
\* has either iterated its batch to NOT-READY or is inside a call that does
\* not return
Quiescent ==
    /\ rxq = << >>
    /\ \A t \in Threads : pc[t] = "spin" \/ (pc[t] = "idle" /\ ~pending[t])

\* C3 (as claimed): with threads sharing the handle, each iterating its batch
\* to NOT-READY before it receives again, every event message the kernel sent
\* is returned READY in exactly one thread: never twice, in arrival order
\* within a batch, and none is left undelivered once the threads have nothing
\* more to iterate.
C3_ExactlyOneThread ==
    /\ ~seen.dup
    /\ \A t \in Threads : YieldsInOrder(t)
    /\ Quiescent =>
           \A k \in 1..Len(sent) :
               \A i \in 1..Len(sent[k]) :
                   sent[k][i] \in {"evt", "evtU"} => <<k, i>> \in seen.ids

\* the payload a record points to is the one the kernel sent with its packet id
OwnPayload(p) ==
    /\ p.payload.kind = "heap"
    /\ p.payload_len = Len(Deref(p.payload))
    /\ p.payload_len >= 2
    /\ PidOf(Deref(p.payload)[1], Deref(p.payload)[2]) = p.packet_id

\* C4: a packet record returned READY has its own copy of the payload: the
\* payload never points into the receive buffer, and its bytes and length stay
\* what they were whatever is received or iterated on the buffer afterwards.
C4_PayloadPrivate ==
    /\ \A t \in Threads : pc[t] \in {"got", "done"} => OwnPayload(pkt[t])
    /\ held.full => /\ OwnPayload(held.packet)
                    /\ Deref(held.packet.payload) = held.snap

C4_Witness ==
    /\ held.full
    /\ held.packet.packet_id = PidOf(1, 1)
    /\ buf[1].content.serial = 2
    /\ ret[1] = Ret("next", IO_READY)

\* C8: a wait that times out or is interrupted, and a receive call that is
\* interrupted or finds nothing to read (another thread took the datagram),
\* make nfqueue_receive return NOT-READY; and a thread that finds the socket
\* empty in its receive call gets that answer instead of waiting in the call.
C8_TransientNotReady ==
    \A t \in Threads :
        /\ (/\ pc[t] # "recv"
            /\ ret[t].fn = "receive"
            /\ rx[t].wait \in {"timeout", "signal"} \/ rx[t].read \in {"eagain", "eintr"})
               => ret[t].val = IO_NOTREADY
        /\ (pc[t] = "recv" /\ rxq = << >> /\ proc = "run")
               => ENABLED nfqueue_receive_read(t, "eagain")

C8_Witness ==
    /\ pc[2] = "idle"
    /\ ret[2] = Ret("receive", IO_NOTREADY)
    /\ rx[2].wait = "readable"
    /\ rx[2].read = "eagain"
    /\ buf[1].content.serial = 1

\* C9: nfqueue_receive returns ERROR when the receive call yields zero bytes and
\* when the wait or the receive call fails with an error that is neither
\* would-block nor an interruption.
C9_FatalIsError ==
    \A t \in Threads :
        (/\ pc[t] # "recv"
         /\ ret[t].fn = "receive"
         /\ rx[t].wait = "error" \/ rx[t].read \in {"eof", "error"})
            => ret[t].val = IO_ERROR

C9_Witness ==
    /\ pc[1] = "idle"
    /\ ret[1] = Ret("receive", IO_ERROR)
    /\ rx[1].read = "eof"

\* C10 (as claimed): no socket is released twice, whatever the sequence of
\* nfqueue_open and nfqueue_close calls: a close of a handle that is not open
\* ends the process before the release.
C10_ReleasedOnce ==
    \A s \in SockIds : sockets[s].released <= 1

\* C11 (as claimed): nfqueue_receive, nfqueue_verdict and nfqueue_close, called
\* with a NULL handle or with a handle whose socket is not open, end the
\* process in a failed ASSERT and touch no socket before that.
C11_UnopenedIsFatal ==
    [][ \A h \in Handles :
            (h = "NULL" \/ ~SocketOpen) =>
                /\ (\E tm \in Timeouts, ev \in WaitEvents : nfqueue_receive_wait(1, h, tm, ev))
                       => (proc' = "assert" /\ rx' = rx /\ sockets' = sockets)
                /\ nfqueue_close(h)
                       => (proc' = "assert" /\ sockets' = sockets)
                /\ (\E sendOk \in BOOLEAN :
                        nfqueue_verdict(1, h, PidOf(1, 1), NF_ACCEPT, Wide(-1, 65535), sendOk))
                       => (proc' = "assert" /\ call' = call /\ sockets' = sockets) ]_vars

\* the attributes of an outbound message, after its nfgenmsg
SentAttrs(m) == mnl_attr_walk(SubSeq(m.body, NFGENMSG_LEN + 1, Len(m.body)))

IsBind(m) ==
    /\ m.nlmsg_type = NFNL_SUBSYS_QUEUE * 256 + NFQNL_MSG_CONFIG
    /\ \E k \in 1..Len(SentAttrs(m)) :
           /\ SentAttrs(m)[k].type = NFQA_CFG_CMD
           /\ SentAttrs(m)[k].val[1] = NFQNL_CFG_CMD_BIND

IsConfigure(m) ==
    /\ m.nlmsg_type = NFNL_SUBSYS_QUEUE * 256 + NFQNL_MSG_CONFIG
    /\ \E k \in 1..Len(SentAttrs(m)) : SentAttrs(m)[k].type = NFQA_CFG_PARAMS

OpenOrder == <<"socket", "bind", "BIND", "CONFIGURE">>

\* C12: nfqueue_open takes its steps in the order socket creation, socket bind,
\* BIND command, CONFIGURE command, stops at the first step that fails, returns
\* success only when all four succeeded, and sends the BIND command at most
\* once (before the CONFIGURE command, and only when it reached that step).
C12_OpenInOrder ==
    call.fn = "open" =>
        LET n == Len(call.steps) IN
        /\ n \in 1..4
        /\ \A k \in 1..n : call.steps[k].step = OpenOrder[k]
        /\ \A k \in 1..(n - 1) : call.steps[k].ok
        /\ n < 4 => ~call.steps[n].ok
        /\ call.val <=> (n = 4 /\ call.steps[4].ok)
        /\ Cardinality({k \in 1..Len(call.sends) : IsBind(call.sends[k])}) <= 1
        /\ n <= 2 => call.sends = << >>
        /\ n = 3 => (Len(call.sends) <= 1 /\ \A k \in 1..Len(call.sends) : IsBind(call.sends[k]))
        /\ (n = 4 /\ call.steps[4].ok) =>
               (Len(call.sends) = 2 /\ IsBind(call.sends[1]) /\ IsConfigure(call.sends[2]))

C12_Witness ==
    /\ call.fn = "open"
    /\ Len(call.steps) = 3
    /\ ~call.val
    /\ Len(call.sends) = 1
    /\ IsBind(call.sends[1])

RECURSIVE BigEndian(_, _)
\* the k bytes of n, most significant first
BigEndian(n, k) == IF k = 0 THEN << >> ELSE BigEndian(n \div 256, k - 1) \o << n % 256 >>

\* message m is the verdict message for these arguments under the sentinel rule
VerdictEncoded(m, id, v, cm) ==
    LET at == SentAttrs(m) IN
    /\ m.nlmsg_type = NFNL_SUBSYS_QUEUE * 256 + NFQNL_MSG_VERDICT
    /\ m.nlmsg_len = MNL_NLMSG_HDRLEN + Len(m.body)
    /\ Len(at) >= 1
    /\ at[1].type = NFQA_VERDICT_HDR
    /\ at[1].val = BigEndian(v, 4) \o BigEndian(id, 4)
    /\ IF cm[1] < 0
       THEN Len(at) = 1
       ELSE /\ Len(at) = 2
            /\ at[2].type = NFQA_CT
            /\ LET in == mnl_attr_walk(at[2].val) IN
               /\ Len(in) = 1
               /\ in[1].type = CTA_MARK
               /\ in[1].val = BigEndian(cm[1], 2) \o BigEndian(cm[2], 2)

\* C15: the verdict message nfqueue_verdict sends has the verdict header with
\* the packet id and the decision in network byte order; for a negative
\* connmark it has no tracking-context attribute; for 0 <= connmark <=
\* 4294967295 it has exactly one, nesting exactly one mark attribute whose four
\* bytes are connmark in network byte order.
C15_VerdictEncoding ==
    [][ \A id \in PacketIds, v \in Verdicts, cm \in Connmarks, sendOk \in BOOLEAN :
            (nfqueue_verdict(1, "q", id, v, cm, sendOk) /\ call'.sends # << >>) =>
                /\ Len(call'.sends) = 1
                /\ VerdictEncoded(call'.sends[1], id, v, cm) ]_vars

C15_Witness ==
    /\ call.fn = "verdict"
    /\ call.val
    /\ Len(SentAttrs(call.sends[1])) = 2
    /\ mnl_attr_walk(SentAttrs(call.sends[1])[2].val)[1].val = <<255, 255, 255, 255>>

\* the bytes a command needs in the scratch buffer
VerdictBytes(cm) == IF cm[1] < 0 THEN 32 ELSE 44
BindBytes == MNL_NLMSG_HDRLEN + NFGENMSG_LEN + MNL_ATTR_HDRLEN + 4

C13_WarnOnce == \A site \in LogSites : log_count[site] <= 1

\* the message the cursor of thread t addresses, when there is one
AtMessage(t) == buf[t].data # NULL /\ mnl_nlmsg_ok(buf[t])
CursorMsg(t) == MsgOf(buf[t].content, IdxAt(buf[t].content, buf[t].nlh))

\* the message nfqueue_next returned READY last: the one before the cursor
ReadyMsg(t) == MsgOf(buf[t].content, out[t][Len(out[t])].idx)

HasAttr(m, ty) == \E k \in 1..Len(m.attrs) : m.attrs[k].type = ty
AttrVal(m, ty) == m.attrs[CHOOSE k \in 1..Len(m.attrs) : m.attrs[k].type = ty].val

\* C14: in every packet record returned READY, if has_conntrack is false then
\* the fields that follow it are zero: has_connmark is false and conn_id,
\* conn_mark, conn_state, conn_status and both tuples are zero
C14_NoConntrackZero ==
    \A t \in Threads :
        (ret[t] = Ret("next", IO_READY) /\ ~pkt[t].has_conntrack) =>
            /\ ~pkt[t].has_connmark
            /\ pkt[t].conn_id = 0
            /\ pkt[t].conn_mark = 0
            /\ pkt[t].conn_state = 0
            /\ pkt[t].conn_status = 0
            /\ pkt[t].orig = ZeroTuple
            /\ pkt[t].reply = ZeroTuple

\* an event message: nfqueue_next hands it to the assembler
IsEvent(m) == m.nlmsg_type >= NLMSG_MIN_TYPE /\ ~dump_interrupted(m)

\* the message has no packet metaheader, no payload attribute or an empty one
LacksMandatory(m) ==
    \/ ~HasAttr(m, NFQA_PACKET_HDR)
    \/ ~HasAttr(m, NFQA_PAYLOAD)
    \/ AttrVal(m, NFQA_PAYLOAD) = << >>

\* C17: nfqueue_next returns ERROR, never READY, for an event message without
\* the packet metaheader, without the payload attribute or with a payload of
\* length zero, whatever other attributes it carries, valid or not
C17_MandatoryAttributes ==
    [][ \A t \in Threads :
            (/\ AtMessage(t)
             /\ IsEvent(CursorMsg(t))
             /\ LacksMandatory(CursorMsg(t))
             /\ nfqueue_next(t)) =>
                /\ ret'[t] = Ret("next", IO_ERROR)
                /\ pc'[t] # "got"
                /\ out'[t] = out[t] ]_vars

\* an empty payload next to tracking data has been rejected
C17_Witness ==
    /\ AtMessage(1)
    /\ HasAttr(CursorMsg(1), NFQA_PACKET_HDR)
    /\ HasAttr(CursorMsg(1), NFQA_PAYLOAD)
    /\ AttrVal(CursorMsg(1), NFQA_PAYLOAD) = << >>
    /\ HasAttr(CursorMsg(1), NFQA_CT)
    /\ ret[1] = Ret("next", IO_ERROR)

\* the attribute blocks nested in the attributes of type ty of the block at
SubBlocks(at, ty) == { mnl_attr_walk(at[k].val) : k \in {j \in 1..Len(at) : at[j].type = ty} }

\* the blocks of a message at each nesting level
CtaBlocks(m) == SubBlocks(m.attrs, NFQA_CT)
TupleBlocks(m) ==
    UNION { SubBlocks(c, CTA_TUPLE_ORIG) \cup SubBlocks(c, CTA_TUPLE_REPLY) : c \in CtaBlocks(m) }
IpBlocks(m) == UNION { SubBlocks(tu, CTA_TUPLE_IP) : tu \in TupleBlocks(m) }
ProtoBlocks(m) == UNION { SubBlocks(tu, CTA_TUPLE_PROTO) : tu \in TupleBlocks(m) }

\* some attribute of the block has one of the types and a payload length
\* outside lens
WrongLength(at, types, lens) ==
    \E k \in 1..Len(at) : at[k].type \in types /\ Len(at[k].val) \notin lens

\* a nested attribute is empty or holds at least an attribute header
NestedLens == {0} \cup 4..MNL_SOCKET_BUFFER_SIZE

BadTop(m) ==
    \/ WrongLength(m.attrs, {NFQA_PACKET_HDR}, {7})
    \/ WrongLength(m.attrs, {NFQA_TIMESTAMP}, {16})
    \/ WrongLength(m.attrs, NFQA_U32_TYPES, {4})
    \/ WrongLength(m.attrs, {NFQA_HWADDR}, {12})

BadCta(m) ==
    \E c \in CtaBlocks(m) :
        \/ WrongLength(c, {CTA_TUPLE_ORIG, CTA_TUPLE_REPLY, CTA_COUNTERS_ORIG, CTA_COUNTERS_REPLY},
                       NestedLens)
        \/ WrongLength(c, {CTA_STATUS, CTA_TIMEOUT, CTA_MARK, CTA_SECMARK, CTA_ID}, {4})

BadTuple(m) ==
    \E tu \in TupleBlocks(m) : WrongLength(tu, {CTA_TUPLE_IP, CTA_TUPLE_PROTO}, NestedLens)

BadIp(m) ==
    \E ip \in IpBlocks(m) :
        \/ WrongLength(ip, {CTA_IP_V4_SRC, CTA_IP_V4_DST}, {4})
        \/ WrongLength(ip, {CTA_IP_V6_SRC, CTA_IP_V6_DST}, {16})

BadProto(m) ==
    \E pr \in ProtoBlocks(m) :
        \/ WrongLength(pr, {CTA_PROTO_NUM, CTA_PROTO_ICMP_TYPE, CTA_PROTO_ICMP_CODE}, {1})
        \/ WrongLength(pr, {CTA_PROTO_SRC_PORT, CTA_PROTO_DST_PORT, CTA_PROTO_ICMP_ID}, {2})

\* C18: at every nesting level (packet attributes, tracking context, tuple,
\* IP sub-block, protocol sub-block) an attribute of a type known at that
\* level whose payload length breaks the level's rule makes nfqueue_next
\* return ERROR for the message, never READY (while malloc has memory to give:
\* nfqueue_parse ends the process when it has not)
C18_InvalidLengthFails ==
    [][ \A t \in Threads :
            (/\ AtMessage(t)
             /\ IsEvent(CursorMsg(t))
             /\ malloc # NULL
             /\ \/ BadTop(CursorMsg(t))
                \/ BadCta(CursorMsg(t))
                \/ BadTuple(CursorMsg(t))
                \/ BadIp(CursorMsg(t))
                \/ BadProto(CursorMsg(t))
             /\ nfqueue_next(t)) =>
                /\ ret'[t] = Ret("next", IO_ERROR)
                /\ pc'[t] # "got"
                /\ out'[t] = out[t] ]_vars

\* a message whose only flaw is an address of wrong length in the IP sub-block
\* has been rejected
C18_Witness ==
    /\ AtMessage(1)
    /\ BadIp(CursorMsg(1))
    /\ ~BadTop(CursorMsg(1)) /\ ~BadCta(CursorMsg(1)) /\ ~BadTuple(CursorMsg(1))
    /\ ~BadProto(CursorMsg(1))
    /\ ~LacksMandatory(CursorMsg(1))
    /\ ret[1] = Ret("next", IO_ERROR)

\* the address attributes of each family in an IP sub-block
HasV4(ip) == \E k \in 1..Len(ip) : ip[k].type \in {CTA_IP_V4_SRC, CTA_IP_V4_DST}
HasV6(ip) == \E k \in 1..Len(ip) : ip[k].type \in {CTA_IP_V6_SRC, CTA_IP_V6_DST}

\* some tuple of the message has addresses of both families
MixedFamilies(m) == \E ip \in IpBlocks(m) : HasV4(ip) /\ HasV6(ip)

\* the IP sub-block of the tuple of type ty of a message that has one
IpBlockOf(m, ty) ==
    LET c == mnl_attr_walk(AttrVal(m, NFQA_CT))
        tu == mnl_attr_walk(c[CHOOSE k \in 1..Len(c) : c[k].type = ty].val)
    IN mnl_attr_walk(tu[CHOOSE k \in 1..Len(tu) : tu[k].type = CTA_TUPLE_IP].val)

HasIpBlock(m, ty) ==
    /\ HasAttr(m, NFQA_CT)
    /\ LET c == mnl_attr_walk(AttrVal(m, NFQA_CT)) IN
       /\ \E k \in 1..Len(c) : c[k].type = ty
       /\ LET tu == mnl_attr_walk(c[CHOOSE k \in 1..Len(c) : c[k].type = ty].val) IN
          \E k \in 1..Len(tu) : tu[k].type = CTA_TUPLE_IP

\* the tuple read from the IP sub-block ip has one family: ip_version is that
\* of the addresses in the block, and 0 when there is none
OneFamily(tuple, ip) ==
    /\ tuple.ip_version \in {0, 4, 6}
    /\ tuple.ip_version = 0 <=> (~HasV4(ip) /\ ~HasV6(ip))
    /\ tuple.ip_version = 4 => ~HasV6(ip) /\ SubSeq(tuple.src, 5, 16) = Zeros(12)
                                          /\ SubSeq(tuple.dst, 5, 16) = Zeros(12)
    /\ tuple.ip_version = 6 => ~HasV4(ip)

\* C19: a tuple whose IP sub-block has addresses of both families makes
\* nfqueue_next return ERROR for the message (while malloc has memory to
\* give); so in a packet returned READY each tuple's ip_version is 0, IPV4 or
\* IPV6 and the addresses read into it are of that family
C19_OneFamilyPerTuple ==
    [][ \A t \in Threads :
            (AtMessage(t) /\ IsEvent(CursorMsg(t)) /\ malloc # NULL /\ nfqueue_next(t)) =>
                /\ MixedFamilies(CursorMsg(t)) =>
                       (ret'[t] = Ret("next", IO_ERROR) /\ pc'[t] # "got" /\ out'[t] = out[t])
                /\ ret'[t] = Ret("next", IO_READY) =>
                       /\ pkt'[t].orig.ip_version \in {0, 4, 6}
                       /\ pkt'[t].reply.ip_version \in {0, 4, 6}
                       /\ HasIpBlock(CursorMsg(t), CTA_TUPLE_ORIG) =>
                              OneFamily(pkt'[t].orig, IpBlockOf(CursorMsg(t), CTA_TUPLE_ORIG))
                       /\ HasIpBlock(CursorMsg(t), CTA_TUPLE_REPLY) =>
                              OneFamily(pkt'[t].reply, IpBlockOf(CursorMsg(t), CTA_TUPLE_REPLY))
                       /\ ~HasIpBlock(CursorMsg(t), CTA_TUPLE_ORIG) => pkt'[t].orig.ip_version = 0
                       /\ ~HasIpBlock(CursorMsg(t), CTA_TUPLE_REPLY) => pkt'[t].reply.ip_version = 0
      ]_vars

\* a message with a v4 source and a v6 destination in one tuple, valid
\* otherwise, has been rejected
C19_Witness ==
    /\ AtMessage(1)
    /\ MixedFamilies(CursorMsg(1))
    /\ ~BadTop(CursorMsg(1)) /\ ~BadCta(CursorMsg(1)) /\ ~BadTuple(CursorMsg(1))
    /\ ~BadIp(CursorMsg(1)) /\ ~BadProto(CursorMsg(1))
    /\ ~LacksMandatory(CursorMsg(1))
    /\ ret[1] = Ret("next", IO_ERROR)

\* the message carries a timestamp attribute that is not all zero
TimestampGiven(m) ==
    HasAttr(m, NFQA_TIMESTAMP) /\ \E k \in 1..16 : AttrVal(m, NFQA_TIMESTAMP)[k] # 0

\* C20: for every event message that nfqueue_next returns READY, has_timestamp
\* is true exactly when the timestamp attribute is present and not all zero,
\* and then timestamp holds its seconds and microseconds; a timestamp of zero
\* gives the fields of an absent one (has_timestamp false, timestamp zero);
\* wall_time and mono_time hold the clock readings either way
C20_Timestamp ==
    [][ \A t \in Threads :
            (/\ AtMessage(t)
             /\ IsEvent(CursorMsg(t))
             /\ nfqueue_next(t)
             /\ ret'[t] = Ret("next", IO_READY)) =>
                /\ pkt'[t].has_timestamp <=> TimestampGiven(CursorMsg(t))
                /\ pkt'[t].has_timestamp =>
                       /\ BigEndian(pkt'[t].timestamp[1], 8) =
                              SubSeq(AttrVal(CursorMsg(t), NFQA_TIMESTAMP), 1, 8)
                       /\ BigEndian(pkt'[t].timestamp[2], 8) =
                              SubSeq(AttrVal(CursorMsg(t), NFQA_TIMESTAMP), 9, 16)
                /\ ~pkt'[t].has_timestamp => pkt'[t].timestamp = <<0, 0>>
                /\ pkt'[t].wall_time = Now /\ pkt'[t].wall_time > 0
                /\ pkt'[t].mono_time = Now /\ pkt'[t].mono_time > 0 ]_vars

\* a message with a timestamp of zero has been returned READY without one
C20_Witness ==
    /\ ret[1] = Ret("next", IO_READY)
    /\ out[1] # << >>
    /\ HasAttr(ReadyMsg(1), NFQA_TIMESTAMP)
    /\ ~TimestampGiven(ReadyMsg(1))
    /\ ~pkt[1].has_timestamp
    /\ pkt[1].timestamp = <<0, 0>>
    /\ pkt[1].wall_time > 0

\* records an earlier call may have left in the caller's packet structure
PriorRecords ==
    { ZeroPacket,
      [ZeroPacket EXCEPT !.has_connmark = TRUE, !.conn_mark = 7, !.conn_state = 2,
                         !.has_conntrack = TRUE, !.conn_id = 9],
      [ZeroPacket EXCEPT !.has_timestamp = TRUE, !.timestamp = <<5, 6>>,
                         !.payload = HeapPtr(1), !.payload_len = 3,
                         !.orig = [ZeroTuple EXCEPT !.ip_version = IPV4],
                         !.reply = [ZeroTuple EXCEPT !.ip_version = IPV6]] }

\* C21: the record nfqueue_next hands out is built afresh for each message:
\* parsing the message at the cursor into a record with any earlier contents
\* (a connection mark, a tracking state, tuples of either address family)
\* gives the same result and the same record as parsing it into the record
\* the thread holds, and that is the outcome of the call
C21_FreshRecord ==
    [][ \A t \in Threads :
            (/\ AtMessage(t)
             /\ IsEvent(CursorMsg(t))
             /\ nfqueue_next(t)) =>
                \A prev \in PriorRecords :
                    LET i == IdxAt(buf[t].content, buf[t].nlh)
                        other == nfqueue_parse(CursorMsg(t), prev, BufPtr(t, i), malloc, Now)
                    IN /\ pkt'[t] = other.packet
                       /\ other.res = "ok" => ret'[t] = Ret("next", IO_READY)
                       /\ other.res = "fail" => ret'[t] = Ret("next", IO_ERROR)
                       /\ other.res = "die" => proc' = "assert" ]_vars

\* after a packet with a mark and an IPv4 tuple, the same record has received
\* a packet without a mark whose tuple is IPv6
C21_Witness ==
    /\ buf[1].content.tmpl = <<"evtCt", "evtCtNoMark">>
    /\ ret[1] = Ret("next", IO_READY)
    /\ pc[1] = "got"
    /\ Len(out[1]) >= 2
    /\ out[1][Len(out[1])].idx = 2
    /\ out[1][Len(out[1]) - 1].idx = 1
    /\ ~pkt[1].has_connmark
    /\ pkt[1].orig.ip_version = IPV6

\* C22: every call of nfqueue_next terminates, whatever the batch holds: the
\* call returns a result (or ends the process on a failed assertion), it is
\* never left inside its scanning loop
C22_NextTerminates ==
    [][ \A t \in Threads : nfqueue_next(t) => pc'[t] \in {"idle", "got"} ]_vars

\* C23: no payload block is leaked on failure: a call of nfqueue_next that
\* returns ERROR or NOT-READY leaves no block allocated that was free before
\* the call
C23_NoLeakOnFailure ==
    [][ \A t \in Threads :
            (/\ nfqueue_next(t)
             /\ ret'[t] \in {Ret("next", IO_ERROR), Ret("next", IO_NOTREADY)}) =>
                \A a \in Blocks : heap'[a].used => heap[a].used ]_vars

\* the length the last successful nfqueue_receive of thread t stored
ReceivedLen(t) == DatagramLen(buf[t].content)

\* thread t has had a successful nfqueue_receive
HasReceived(t) == buf[t].content.tmpl # << >>

\* C24 as stated: after the first successful receive the remaining length is
\* between 0 and the last received length, and cursor offset plus remaining
\* length is the last received length, so that the cursor never points past
\* the end of the received data
C24_CursorWithinBatch ==
    \A t \in Threads :
        HasReceived(t) =>
            /\ buf[t].len \in 0..ReceivedLen(t)
            /\ buf[t].nlh + buf[t].len = ReceivedLen(t)
            /\ buf[t].nlh <= ReceivedLen(t)

\* C24, amended: cursor offset plus remaining length is the last received
\* length; the cursor is a multiple of the message alignment and at most the
\* received length rounded up to it, so the remaining length is between
\* -(MNL_ALIGNTO - 1) and the received length; it is negative only when all
\* messages are consumed, and nfqueue_next then finds no message
C24_CursorAndLength ==
    \A t \in Threads :
        HasReceived(t) =>
            /\ buf[t].nlh + buf[t].len = ReceivedLen(t)
            /\ buf[t].nlh % MNL_ALIGNTO = 0
            /\ buf[t].nlh \in 0..MNL_ALIGN(ReceivedLen(t))
            /\ buf[t].len \in (1 - MNL_ALIGNTO)..ReceivedLen(t)
            /\ buf[t].len < 0 =>
                   /\ buf[t].nlh = MNL_ALIGN(ReceivedLen(t))
                   /\ ~mnl_nlmsg_ok(buf[t])

\* the last message of the batch, whose length is not a multiple of the
\* alignment, has been returned and the next call found no message
C24_Witness ==
    /\ HasReceived(1)
    /\ buf[1].content.tmpl[Len(buf[1].content.tmpl)] = "evtU"
    /\ ReceivedLen(1) % MNL_ALIGNTO # 0
    /\ buf[1].len < 0
    /\ ret[1] = Ret("next", IO_NOTREADY)

\* a step of nfqueue_receive in thread t
ReceiveStep(t) ==
    \/ \E h \in Handles, tm \in Timeouts, ev \in WaitEvents : nfqueue_receive_wait(t, h, tm, ev)
    \/ \E ev \in ReadEvents : nfqueue_receive_read(t, ev)

\* nfqueue_receive returned NOT-READY or ERROR
ReceiveFailed(r) == r \in {Ret("receive", IO_NOTREADY), Ret("receive", IO_ERROR)}

\* C25: a nfqueue_receive that returns NOT-READY or ERROR leaves the received
\* data, the received length and the cursor of the buffer as they were; a
\* nfqueue_next right after it returns NOT-READY on a buffer that never had a
\* successful receive, and goes on with the unconsumed message of the previous
\* batch otherwise: after the first of two well-formed event messages it
\* returns the second one READY
C25_FailedReceiveFrame ==
    [][ \A t \in Threads :
            /\ (ReceiveStep(t) /\ ReceiveFailed(ret'[t])) =>
                   /\ buf'[t].len = buf[t].len
                   /\ buf'[t].nlh = buf[t].nlh
                   /\ buf'[t].content = buf[t].content
                   /\ out'[t] = out[t]
            /\ (ReceiveFailed(ret[t]) /\ ~HasReceived(t) /\ nfqueue_next(t)) =>
                   /\ ret'[t] = Ret("next", IO_NOTREADY)
                   /\ out'[t] = out[t]
            /\ (/\ ReceiveFailed(ret[t])
                /\ buf[t].content.tmpl \in { <<"evt", "evtU">>, <<"evtU", "evt">> }
                /\ Len(out[t]) = 1
                /\ out[t][1].idx = 1
                /\ malloc # NULL
                /\ nfqueue_next(t)) =>
                   /\ ret'[t] = Ret("next", IO_READY)
                   /\ Len(out'[t]) = 2
                   /\ out'[t][2].idx = 2
                   /\ out'[t][2].serial = out[t][1].serial
                   /\ out'[t][2].packet_id = PidOf(buf[t].content.serial, 2) ]_vars

\* a receive has failed while the second message of the batch was unconsumed
C25_Witness ==
    /\ ReceiveFailed(ret[1])
    /\ pc[1] = "idle"
    /\ buf[1].content.tmpl = <<"evt", "evtU">>
    /\ Len(out[1]) = 1
    /\ AtMessage(1)
    /\ IdxAt(buf[1].content, buf[1].nlh) = 2

\* the last call on the handle was a nfqueue_open that failed, and the handle
\* has not been closed since
OpenFailed ==
    /\ call.fn = "open"
    /\ ~call.val
    /\ q.nl_socket # NULL => sockets[q.nl_socket].st = "open"

\* C26: after nfqueue_open has failed at any step (socket creation, socket
\* bind, BIND command, CONFIGURE command) one nfqueue_close on the handle does
\* not end the process and leaves no socket open
C26_CloseAfterFailedOpen ==
    [][ (OpenFailed /\ nfqueue_close("q")) =>
            /\ proc' = "run"
            /\ \A s \in SockIds : sockets'[s].st # "open" ]_vars

\* the same for a nfqueue_open that failed after it had created the socket
C26_CloseAfterPartialOpen ==
    [][ (OpenFailed /\ call.steps[1].ok /\ nfqueue_close("q")) =>
            /\ proc' = "run"
            /\ \A s \in SockIds : sockets'[s].st # "open" ]_vars

=========================================================================
